---- MODULE Spec2Model ----
(***************************************************************************)
(* A model of the email-discovery pipeline of gorkemkurban/email-scraper:  *)
(* the validator / ranker of email_extractor.py, the pattern matcher       *)
(* (extract_emails, decode_cloudflare_email) and the site crawler of       *)
(* web_scraper.py (scrape_website, _scrape_page, _get_page_soup).          *)
(*                                                                         *)
(* Text is modelled by TLA+ strings; a character is a string of length 1.  *)
(* Only ASCII text is modelled.                                            *)
(*                                                                         *)
(* Spec is the crawl of one site after another.  SpecExtract, SpecDecode   *)
(* and SpecRank apply the functions of email_extractor.py to an argument   *)
(* their initial state draws: a text, an encoded string, a set of          *)
(* candidates.                                                             *)
(* SpecLinks applies the link finders of page_detector.py to a document   *)
(* and a base URL, SpecFinder the fallback of email_finder.py to a domain  *)
(* and a company name, and SpecBatch is the per-record loop of main.py and *)
(* gui.py over a list of websites.  SpecGui is the window of gui.py with   *)
(* the run_analysis threads its Start Analysis button launches.  FairSpec  *)
(* is Spec with the crawler taking its next step whenever it has one.      *)
(***************************************************************************)
EXTENDS Integers, Sequences, FiniteSets, TLC

(***************************************************************************)
(* Strings                                                                 *)
(***************************************************************************)
Ch(s, i) == SubSeq(s, i, i)

UPPER == "ABCDEFGHIJKLMNOPQRSTUVWXYZ"
LOWER == "abcdefghijklmnopqrstuvwxyz"
DIGITS == "0123456789"
HEXLOWER == "0123456789abcdef"

\* c occurs in the string cls
InClass(c, cls) == \E i \in 1..Len(cls) : Ch(cls, i) = c

IndexIn(c, cls) == CHOOSE i \in 1..Len(cls) : Ch(cls, i) = c

\* str.lower() on one ASCII character (the tables are written f @@ <<>>, which
\* is f, to have them held as explicit functions)
UpperSet == {Ch(UPPER, i) : i \in 1..Len(UPPER)}
LowerOf == [c \in UpperSet |-> Ch(LOWER, IndexIn(c, UPPER))] @@ <<>>
LowerCh(c) == IF c \in UpperSet THEN LowerOf[c] ELSE c

RECURSIVE LowerStr(_)
\* str.lower(), one half of the string after the other
LowerStr(s) ==
    IF Len(s) = 0 THEN ""
    ELSE IF Len(s) = 1 THEN LowerCh(s)
    ELSE LowerStr(SubSeq(s, 1, Len(s) \div 2)) \o LowerStr(SubSeq(s, Len(s) \div 2 + 1, Len(s)))

\* the characters str.strip() and \s remove / match
IsSpace(c) == c \in {" ", "\t", "\n", "\r"}

\* str.strip()
StripStr(s) ==
    LET keep == {i \in 1..Len(s) : ~IsSpace(Ch(s, i))}
    IN  IF keep = {} THEN ""
        ELSE LET lo == CHOOSE i \in keep : \A j \in keep : i <= j
                 hi == CHOOSE i \in keep : \A j \in keep : i >= j
             IN  SubSeq(s, lo, hi)

\* str.startswith / str.endswith / the `in` operator on strings
StartsWith(s, p) == Len(p) <= Len(s) /\ SubSeq(s, 1, Len(p)) = p
EndsWith(s, p) == Len(p) <= Len(s) /\ SubSeq(s, Len(s) - Len(p) + 1, Len(s)) = p
Contains(s, p) == \E i \in 1..(Len(s) - Len(p) + 1) : SubSeq(s, i, i + Len(p) - 1) = p

\* the positions of c in s
Positions(s, c) == {i \in 1..Len(s) : Ch(s, i) = c}

SeqToSet(q) == {q[i] : i \in 1..Len(q)}

\* the orders in which iteration may visit the elements of a Python set
Orderings(S) ==
    {SubSeq(q, 1, Cardinality(S)) :
        q \in {f \in [1..Cardinality(S) -> S] :
                  \A i, j \in 1..Cardinality(S) : f[i] = f[j] => i = j}}

(***************************************************************************)
(* config.py                                                               *)
(***************************************************************************)
MAX_RETRIES == 3

BLACKLISTED_DOMAINS ==
    { "gmail.com", "hotmail.com", "outlook.com", "yahoo.com",
      "yandex.com", "mail.ru", "protonmail.com", "icloud.com",
      "liand.com", "msn.com", "aol.com", "inbox.com",
      "gmx.com", "zoho.com", "mail.com", "tutanota.com",
      "sentry.wixpress.com", "sentry-next.wixpress.com", "wixpress.com", "wix.com",
      "example.com", "test.com", "localhost", "domain.com",
      "email.com", "yourdomain.com", "yoursite.com",
      "4x.png", "2x.png", "3x.png", ".png", ".jpg", ".gif",
      "sentry.io", "sentry-cdn.com" }

EXAMPLE_EMAILS ==
    { "utilisateur@domaine.com", "example@example.com", "info@example.com",
      "contact@example.com", "test@test.com", "email@email.com",
      "your@email.com", "youremail@domain.com", "name@domain.com" }

(***************************************************************************)
(* email_extractor.py: the validator and the ranker                        *)
(***************************************************************************)
MIN_EMAIL_LEN == 6
MAX_EMAIL_LEN == 100
MIN_HEX_LOCAL == 24
MAX_DOMAIN_LEN == 40

system_keywords == {"sentry", "wixpress", "wix.com", "sentry.io"}

file_extensions ==
    {".png", ".jpg", ".jpeg", ".gif", ".svg", ".webp", ".css", ".js", ".html", ".php"}

priority_prefixes == {"info@", "contact@", "sales@", "commercial@"}

\* email.split('@') unpacks into two names only when there is exactly one '@'
SplitsInTwo(e) == Cardinality(Positions(e, "@")) = 1
LocalPart(e) == SubSeq(e, 1, (CHOOSE i \in Positions(e, "@") : TRUE) - 1)
DomainPart(e) == SubSeq(e, (CHOOSE i \in Positions(e, "@") : TRUE) + 1, Len(e))

AllHex(s) == \A i \in 1..Len(s) : InClass(Ch(s, i), HEXLOWER)

\* NormalizedValid rejecting a domain of MAX_DOMAIN_LEN characters too
NormalizedValidShortDomain(e) ==
    IF Len(e) < MIN_EMAIL_LEN \/ Len(e) > MAX_EMAIL_LEN THEN FALSE
    ELSE IF e \in EXAMPLE_EMAILS THEN FALSE
    ELSE IF ~SplitsInTwo(e) THEN FALSE
    ELSE LET local_part == LocalPart(e)
             domain == DomainPart(e)
         IN  IF domain \in BLACKLISTED_DOMAINS THEN FALSE
             ELSE IF \E k \in system_keywords : Contains(LowerStr(domain), k) THEN FALSE
             ELSE IF \E x \in file_extensions : EndsWith(e, x) \/ EndsWith(domain, x)
                  THEN FALSE
             ELSE IF Len(local_part) >= MIN_HEX_LOCAL /\ AllHex(local_part) THEN FALSE
             ELSE IF ~Contains(domain, ".") THEN FALSE
             ELSE IF Len(domain) >= MAX_DOMAIN_LEN THEN FALSE
             ELSE TRUE

\* the checks of is_valid_business_email on the normalised address, in the
\* order of the code; each returns False
NormalizedValid(e) ==
    IF Len(e) < MIN_EMAIL_LEN \/ Len(e) > MAX_EMAIL_LEN THEN FALSE
    ELSE IF e \in EXAMPLE_EMAILS THEN FALSE
    ELSE IF ~SplitsInTwo(e) THEN FALSE
    ELSE LET local_part == LocalPart(e)
             domain == DomainPart(e)
         IN  IF domain \in BLACKLISTED_DOMAINS THEN FALSE
             ELSE IF \E k \in system_keywords : Contains(LowerStr(domain), k) THEN FALSE
             ELSE IF \E x \in file_extensions : EndsWith(e, x) \/ EndsWith(domain, x)
                  THEN FALSE
             ELSE IF Len(local_part) >= MIN_HEX_LOCAL /\ AllHex(local_part) THEN FALSE
             ELSE IF ~Contains(domain, ".") THEN FALSE
             ELSE IF Len(domain) > MAX_DOMAIN_LEN THEN FALSE
             ELSE TRUE

\* is_valid_business_email without email.lower().strip()
is_valid_as_given(email) == NormalizedValid(email)

\* EmailExtractor.is_valid_business_email
is_valid_business_email(email) == NormalizedValid(StripStr(LowerStr(email)))

HasPriorityPrefix(email) == \E p \in priority_prefixes : StartsWith(email, p)

\* filter_valid_emails without the split into prioritized and others
filter_valid_emails_unranked(order) == SelectSeq(order, is_valid_business_email)

\* EmailExtractor.filter_valid_emails, given the order in which the set is iterated
filter_valid_emails(order) ==
    LET valid_emails == SelectSeq(order, is_valid_business_email)
        IsOther(e) == ~HasPriorityPrefix(e)
        prioritized == SelectSeq(valid_emails, HasPriorityPrefix)
        others == SelectSeq(valid_emails, IsOther)
    IN  IF valid_emails = <<>> THEN <<>> ELSE prioritized \o others

\* EmailExtractor.get_best_email, given the order in which the set is iterated
get_best_email(order) ==
    LET valid_emails == filter_valid_emails(order)
    IN  IF valid_emails # <<>> THEN valid_emails[1] ELSE ""

\* the values get_best_email may return for a set, whose iteration order is
\* not determined
BestOf(S) == {get_best_email(q) : q \in Orderings(S)}

(***************************************************************************)
(* email_extractor.py: the pattern matcher.                                *)
(*                                                                         *)
(* The four regular expressions of extract_emails have one shape,          *)
(*     \b G1 SEP1 G2 SEP2 G3 \b                                            *)
(* with G1, G2 and G3 runs of a character class and SEP1, SEP2 the         *)
(* separators standing for '@' and '.'.  re matches greedily and           *)
(* backtracks.  No separator begins with a character of G1's class, so G1  *)
(* is the longest run; the alternatives of a separator exclude one         *)
(* another, and the \s* around them are followed by a character that is    *)
(* not white space, so a separator matches in one way at most.  What is    *)
(* left to backtracking is the length of G2 (its class holds '.') and the  *)
(* length of G3 (the class of EMAIL_PATTERN holds '|', which is no word    *)
(* character): the engine keeps the longest G2, then the longest G3, for   *)
(* which the rest matches.  All patterns are compiled with re.IGNORECASE.  *)
(***************************************************************************)
CharsOf(cls) == {Ch(cls, i) : i \in 1..Len(cls)}

\* \w on ASCII text
WordChars == CharsOf(UPPER) \cup CharsOf(LOWER) \cup CharsOf(DIGITS) \cup {"_"}
\* [A-Za-z0-9._%+-]
LocalChars == CharsOf(UPPER) \cup CharsOf(LOWER) \cup CharsOf(DIGITS) \cup CharsOf("._%+-")
\* [A-Za-z0-9.-]
DomainChars == CharsOf(UPPER) \cup CharsOf(LOWER) \cup CharsOf(DIGITS) \cup CharsOf(".-")
\* [a-z] under IGNORECASE
LetterChars == CharsOf(UPPER) \cup CharsOf(LOWER)
\* [A-Z|a-z]
PipeLetterChars == LetterChars \cup {"|"}
SpaceChars == {" ", "\t", "\n", "\r"}

Max(S) == CHOOSE x \in S : \A y \in S : y <= x
Min(S) == CHOOSE x \in S : \A y \in S : x <= y

\* the length of the longest run of characters of cls that starts at s[i]
RunLen(s, i, cls) ==
    LET stop == {j \in i..Len(s) : Ch(s, j) \notin cls}
    IN  IF stop = {} THEN Len(s) - i + 1 ELSE Min(stop) - i

\* \b between s[i-1] and s[i]
IsWordAt(s, i) == i >= 1 /\ i <= Len(s) /\ Ch(s, i) \in WordChars
Boundary(s, i) == IsWordAt(s, i - 1) # IsWordAt(s, i)

\* the literal w matches at s[i], letter case ignored
LiteralAt(s, i, w) ==
    i + Len(w) - 1 <= Len(s) /\ LowerStr(SubSeq(s, i, i + Len(w) - 1)) = LowerStr(w)

\* The separator sep = [words, space] at s[i]: \s{space,} (w1|w2|...) \s{space,}
\* when space is 0 or 1, the bare alternatives when space is -1.  The index
\* after the separator, or 0 when it does not match.  SepEnd skips the white
\* space before the word, SepWord matches the word at s[j], SepTail skips the
\* white space after it, which ends before s[e].
SepTail(k, e, sep) == IF e - k < sep.space THEN 0 ELSE e

SepHit(s, k, sep) ==
    SepTail(k, IF sep.space < 0 THEN k ELSE k + RunLen(s, k, SpaceChars), sep)

SepWord(s, i, j, hit, sep) ==
    IF hit = {} \/ j - i < sep.space THEN 0
    ELSE SepHit(s, j + Len(CHOOSE w \in hit : TRUE), sep)

SepFrom(s, i, j, sep) == SepWord(s, i, j, {w \in sep.words : LiteralAt(s, j, w)}, sep)

SepEnd(s, i, sep) ==
    SepFrom(s, i, IF sep.space < 0 THEN i ELSE i + RunLen(s, i, SpaceChars), sep)

\* EMAIL_PATTERN (line 17): \b[A-Za-z0-9._%+-]+@[A-Za-z0-9.-]+\.[A-Z|a-z]{2,}\b
EMAIL_PATTERN ==
    [at |-> [words |-> {"@"}, space |-> -1], dot |-> [words |-> {"."}, space |-> -1],
     tld |-> PipeLetterChars]

\* TEXT_EMAIL_PATTERN (line 23)
TEXT_EMAIL_PATTERN ==
    [at |-> [words |-> {"[at]", "@", "(at)", "[a]"}, space |-> 0],
     dot |-> [words |-> {"[dot]", ".", "(dot)"}, space |-> 0],
     tld |-> LetterChars]

\* spaced_pattern (line 53)
spaced_pattern ==
    [at |-> [words |-> {"@"}, space |-> 0], dot |-> [words |-> {"."}, space |-> 0],
     tld |-> LetterChars]

\* at_dot_pattern (line 69)
at_dot_pattern ==
    [at |-> [words |-> {"at"}, space |-> 1], dot |-> [words |-> {"dot"}, space |-> 1],
     tld |-> LetterChars]

NoMatch == [ok |-> FALSE, g1 |-> "", g2 |-> "", g3 |-> "", whole |-> "", end |-> 0]

\* the lengths of G3 at s[p3] after which the pattern ends: 2 or more
\* characters of the class, then \b
TldLens(s, p3, pat) ==
    {n \in 2..RunLen(s, p3, pat.tld) : Boundary(s, p3 + n)}

\* The match of pat that starts at s[i], as re finds it.  MatchAt finds G1
\* (n1 characters) and SEP1, which ends before s[p2]; MatchDomain the longest
\* G2 (n2 characters) after which the rest matches; MatchTld SEP2, which ends
\* before s[p3], and the longest G3 (n3 characters).
Matched(s, i, n1, p2, n2, p3, n3) ==
    [ok |-> TRUE,
     g1 |-> SubSeq(s, i, i + n1 - 1),
     g2 |-> SubSeq(s, p2, p2 + n2 - 1),
     g3 |-> SubSeq(s, p3, p3 + n3 - 1),
     whole |-> SubSeq(s, i, p3 + n3 - 1),
     end |-> p3 + n3]

MatchTld(s, i, pat, n1, p2, n2, p3) ==
    Matched(s, i, n1, p2, n2, p3, Max(TldLens(s, p3, pat)))

\* whether G3 and \b match after a G2 of n2 characters
RestMatches(s, pat, p3) == p3 # 0 /\ TldLens(s, p3, pat) # {}

LongestDomain(s, i, pat, n1, p2, good) ==
    IF good = {} THEN NoMatch
    ELSE MatchTld(s, i, pat, n1, p2, Max(good), SepEnd(s, p2 + Max(good), pat.dot))

MatchDomain(s, i, pat, n1, p2) ==
    IF p2 = 0 THEN NoMatch
    ELSE LongestDomain(s, i, pat, n1, p2,
                       {n2 \in 1..RunLen(s, p2, DomainChars) :
                            RestMatches(s, pat, SepEnd(s, p2 + n2, pat.dot))})

MatchLocal(s, i, pat, n1) ==
    IF n1 >= 1 THEN MatchDomain(s, i, pat, n1, SepEnd(s, i + n1, pat.at)) ELSE NoMatch

MatchAt(s, i, pat) ==
    IF Boundary(s, i) THEN MatchLocal(s, i, pat, RunLen(s, i, LocalChars)) ELSE NoMatch

\* re.findall(pat, s, re.IGNORECASE): the matches from left to right, none
\* overlapping another
FindAll(s, pat) ==
    LET scan[i \in 1..(Len(s) + 1)] ==
            IF i > Len(s) THEN {}
            ELSE LET m == MatchAt(s, i, pat)
                 IN  IF m.ok THEN {m} \cup scan[m.end] ELSE scan[i + 1]
    IN  scan[1]

\* f"{match[0]}@{match[1]}.{match[2]}"
Joined(m) == m.g1 \o "@" \o m.g2 \o "." \o m.g3

\* str.replace(old, new)
ReplaceAll(s, old, new) ==
    LET rep[i \in 1..(Len(s) + 1)] ==
            IF i > Len(s) THEN ""
            ELSE IF i + Len(old) - 1 <= Len(s) /\ SubSeq(s, i, i + Len(old) - 1) = old
                 THEN new \o rep[i + Len(old)]
                 ELSE Ch(s, i) \o rep[i + 1]
    IN  rep[1]

\* line 61
EntityDecoded(text) ==
    ReplaceAll(ReplaceAll(ReplaceAll(text, "&#64;", "@"), "&#46;", "."), "&#x40;", "@")

\* CleanEmails without .lower()
CleanEmailsNoLower(emails) ==
    {StripStr(e) : e \in {x \in emails : x # "" /\ Len(x) > 5}}

\* line 77: {email.lower().strip() for email in emails if email and len(email) > 5}
CleanEmails(emails) ==
    {StripStr(LowerStr(e)) : e \in {x \in emails : x # "" /\ Len(x) > 5}}

\* EmailExtractor.extract_emails
extract_emails(text) ==
    IF text = "" THEN {}
    ELSE LET normal_emails == {m.whole : m \in FindAll(text, EMAIL_PATTERN)}
             text_emails == {Joined(m) : m \in FindAll(text, TEXT_EMAIL_PATTERN)}
             spaced_emails == {Joined(m) : m \in FindAll(text, spaced_pattern)}
             entity_decoded == EntityDecoded(text)
             entity_emails == IF entity_decoded # text
                              THEN {m.whole : m \in FindAll(entity_decoded, EMAIL_PATTERN)}
                              ELSE {}
             at_dot_emails == {Joined(m) : m \in FindAll(text, at_dot_pattern)}
         IN  CleanEmails(normal_emails \cup text_emails \cup spaced_emails
                           \cup entity_emails \cup at_dot_emails)

\* " ".join(order)
JoinSpace(order) ==
    LET j[i \in 0..Len(order)] ==
            IF i = 0 THEN "" ELSE IF i = 1 THEN order[1] ELSE j[i - 1] \o " " \o order[i]
    IN  j[Len(order)]

(***************************************************************************)
(* email_extractor.py: decode_cloudflare_email.  A decoded text is         *)
(* modelled by the sequence of its code points.                            *)
(***************************************************************************)
HexDigits == CharsOf(HEXLOWER) \cup CharsOf("ABCDEF")
HexVal(c) == IndexIn(LowerCh(c), HEXLOWER) - 1

\* int(s, 16) for a slice s of two characters at most: white space around the
\* number is dropped, a sign may lead, and one or two hex digits follow.  (A
\* prefix 0x and an underscore between digits need three characters or more.)
\* ok is FALSE where int raises ValueError.
IntHex(s) ==
    LET t == StripStr(s)
        signed == Len(t) > 0 /\ Ch(t, 1) \in {"+", "-"}
        digits == IF signed THEN SubSeq(t, 2, Len(t)) ELSE t
        value[i \in 0..Len(digits)] ==
            IF i = 0 THEN 0 ELSE 16 * value[i - 1] + HexVal(Ch(digits, i))
    IN  IF Len(digits) = 0 \/ \E i \in 1..Len(digits) : Ch(digits, i) \notin HexDigits
        THEN [ok |-> FALSE, val |-> 0]
        ELSE [ok |-> TRUE,
              val |-> IF signed /\ Ch(t, 1) = "-" THEN 0 - value[Len(digits)]
                      ELSE value[Len(digits)]]

\* a ^ b on naturals
RECURSIVE XorNat(_, _)
XorNat(a, b) ==
    IF a = 0 THEN b
    ELSE IF b = 0 THEN a
    ELSE 2 * XorNat(a \div 2, b \div 2) + ((a + b) % 2)

\* a ^ b on Python's integers, which behave as two's complement numbers of
\* unbounded width: ~x = -x - 1
Xor(a, b) ==
    IF a >= 0 /\ b >= 0 THEN XorNat(a, b)
    ELSE IF a < 0 /\ b < 0 THEN XorNat(0 - a - 1, 0 - b - 1)
    ELSE IF a < 0 THEN 0 - XorNat(0 - a - 1, b) - 1
    ELSE 0 - XorNat(a, 0 - b - 1) - 1

\* EmailExtractor.decode_cloudflare_email: the key encoded[:2], then the
\* slices encoded[i:i+2] for i in range(2, len(encoded), 2); int raising
\* ValueError or chr raising it on a negative number ends in `return ""`
decode_cloudflare_email(encoded) ==
    LET r == IntHex(SubSeq(encoded, 1, IF Len(encoded) < 2 THEN Len(encoded) ELSE 2))
        count == IF Len(encoded) <= 2 THEN 0 ELSE (Len(encoded) - 1) \div 2
        slice(k) == SubSeq(encoded, 2 * k + 1,
                           IF 2 * k + 2 > Len(encoded) THEN Len(encoded) ELSE 2 * k + 2)
        code(k) == Xor(IntHex(slice(k)).val, r.val)
    IN  IF ~r.ok THEN <<>>
        ELSE IF \E k \in 1..count : ~IntHex(slice(k)).ok \/ code(k) < 0 THEN <<>>
        ELSE [k \in 1..count |-> code(k)]

(***************************************************************************)
(* web_scraper.py: the site crawler                                        *)
(*                                                                         *)
(* A page is fetched by _get_page_soup, one HTTP request per step; what    *)
(* the server answers is the environment's choice at every request.  Of a  *)
(* fetched document the crawler reads only the candidate emails            *)
(* (_scrape_page) or only the links (the homepage document of step 2), so  *)
(* a response carries only the part that is read.  The URLs the homepage   *)
(* links to are numbered 1..NPages; target 0 is the homepage URL itself.   *)
(* visits is the history of the running crawl: one entry per call of       *)
(* _get_page_soup, with the page it serves, whether sleep(1) preceded it   *)
(* and what it returned.                                                   *)
(***************************************************************************)
VARIABLES
    pc,             \* control position of the crawler
    stage,          \* which page visit _get_page_soup is serving
    url,            \* scrape_website's url, once normalised
    all_emails,     \* scrape_website's accumulator
    page,           \* what the last _get_page_soup returned
    soup,           \* the homepage document of step 2
    contact_pages,  \* find_contact_pages(soup, url)
    about_pages,    \* find_about_pages(soup, url)
    idx,            \* how many pages of the running loop have been started
    attempt,        \* _get_page_soup's loop variable
    verify,         \* whether the next request verifies certificates
    error_status,   \* whether page was parsed from a response with an HTTP error status
    reqs,           \* requests and sleeps of the running _get_page_soup call
    visits,         \* the page visits of the running crawl, in order
    result,         \* what scrape_website returned
    session,        \* self.session: the sites it has sent requests to
    seen,           \* the candidates in the documents the running crawl was answered with
    call,           \* the function of email_extractor.py that was applied
    arg,            \* the text, encoded string or set of candidates it is applied to
    found,          \* extract_emails(arg)
    again,          \* extract_emails of the elements of found, joined
    decoded,        \* decode_cloudflare_email(arg)
    candidate,      \* the argument of is_valid_business_email
    valid,          \* is_valid_business_email(candidate)
    iterated,       \* the set arg as a list, in the order of its iteration
    ranked,         \* the list filter_valid_emails made of arg
    best,           \* get_best_email(arg)
    found_urls,     \* _find_pages_by_keywords's set of kept URLs
    pages,          \* the list find_contact_pages / find_about_pages returned
    raised,         \* whether the applied function raised instead of returning
    patterns,       \* the list generate_common_patterns returned
    guess,          \* the address find_email_enhanced returned
    method,         \* the discovery method find_email_enhanced returned
    lookups,        \* the outside sources find_email_enhanced consulted, in order
    row,            \* how many records the loop of the batch has taken
    found_count,    \* the records counted as found
    not_found_count,\* the records counted as not found
    outcomes,       \* the records taken, in order, each with how it ended
    is_running,     \* gui.py: the run has not been stopped
    df,             \* the email column of the data frame, one field per record
    input_file,     \* gui.py: whether a file has been selected
    start_btn,      \* gui.py: whether the Start Analysis button is enabled
    stop_btn,       \* gui.py: whether the Stop button is enabled
    threads,        \* gui.py: the run_analysis threads launched, in order
    saved           \* gui.py: the threads that wrote the output file

crawlVars == <<pc, stage, url, all_emails, page, soup, contact_pages, about_pages,
               idx, attempt, verify, error_status, reqs, visits, result, session, seen>>
emailVars == <<found, again, decoded, candidate, valid, iterated, ranked, best>>
linkVars == <<found_urls, pages, raised>>
finderVars == <<patterns, guess, method, lookups>>
batchVars == <<row, found_count, not_found_count, outcomes, is_running, df>>
guiVars == <<input_file, start_btn, stop_btn, threads, saved>>
moreVars == <<linkVars, finderVars, batchVars, guiVars>>
funcVars == <<call, arg, emailVars, moreVars>>

NPages == 3
Targets == 1..NPages
MAX_CONTACT_VISITS == 2
MAX_ABOUT_VISITS == 1
MAX_FOUND_PAGES == 3

NoResult == "(no result)"

\* _get_page_soup returned None
NoPage == [ok |-> FALSE, emails |-> {}, contact |-> {}, about |-> {}, bad |-> "none"]

\* the urls scrape_website is called with
InputUrls == {"acme.com", "https://acme.com"}

\* the candidate sets a page scan may find
PageEmailSets ==
    { {}, {"noreply@gmail.com"}, {"bob@acme.com", "info@acme.com"}, {"office@acme.com"} }

\* get_best_email on the sets the crawl can accumulate (BestOf, tabulated)
CrawlEmails == UNION PageEmailSets
BestTable == [S \in SUBSET CrawlEmails |-> BestOf(S)] @@ <<>>
\* a variant that takes any candidate of the set
AnyEmails(S) == IF S = {} THEN {""} ELSE S

BestEmails(S) == BestTable[S]

\* the targets of the homepage's links that match a contact keyword and of those
\* that match an about keyword.  The crawler tells URLs apart by equality only,
\* so of the link sets that differ by a renaming of the targets one is kept:
\* k contact targets, of which a are about targets too, and b more about targets
LinkSets ==
    UNION { {[contact |-> 1..k, about |-> (1..a) \cup ((k + 1)..(k + b))] :
                a \in 0..k, b \in 0..(NPages - k)} : k \in 0..NPages }

\* the homepage documents: the link sets, and whether a link matching a keyword
\* carries an href that urljoin rejects (ValueError)
Soups ==
    {[ok |-> TRUE, emails |-> {}, contact |-> l.contact, about |-> l.about, bad |-> b] :
        l \in LinkSets, b \in {"none", "contact", "about"}}

\* the documents a page scan reads
ScannedPages ==
    [ok : {TRUE}, emails : PageEmailSets, contact : {{}}, about : {{}}, bad : {"none"}]

\* the documents a request of the running page visit may be answered with
Documents == IF stage = "home_links" THEN Soups ELSE ScannedPages

\* list(found_urls)[:3]: the set in some order, cut
Take(q, n) == SubSeq(q, 1, IF Len(q) < n THEN Len(q) ELSE n)
\* a variant: the whole list
FoundPagesUncut(S) == Orderings(S)

FoundPages(S) == {Take(q, MAX_FOUND_PAGES) : q \in Orderings(S)}

\* url = 'https://' + url unless it starts with a scheme
NormalizeUrl(u) ==
    IF StartsWith(u, "http://") \/ StartsWith(u, "https://") THEN u ELSE "https://" \o u

CrawlInit ==
    /\ pc = "ready"
    /\ stage = "none"
    /\ url = ""
    /\ all_emails = {}
    /\ page = NoPage
    /\ soup = NoPage
    /\ contact_pages = <<>>
    /\ about_pages = <<>>
    /\ idx = 0
    /\ attempt = 0
    /\ verify = TRUE
    /\ error_status = FALSE
    /\ reqs = <<>>
    /\ visits = <<>>
    /\ result = NoResult
    /\ session = {}
    /\ seen = {}

\* the call of _get_page_soup for one page visit
StartFetch(st, target, paused) ==
    /\ pc' = "fetching"
    /\ stage' = st
    /\ attempt' = 0
    /\ verify' = TRUE
    /\ error_status' = FALSE
    /\ reqs' = <<>>
    /\ visits' = Append(visits, [stage |-> st, target |-> target, paused |-> paused,
                                  got |-> "pending"])

\* scrape_website returns r
Return(r) ==
    /\ pc' = "returned"
    /\ result' = r
    /\ UNCHANGED <<stage, attempt, verify, error_status, reqs, visits>>

\* an exception leaves scrape_website
Raise ==
    /\ pc' = "raised"
    /\ UNCHANGED <<stage, attempt, verify, error_status, reqs, visits, result>>

\* a variant of ScrapeBegin with the accumulator kept by the WebScraper
ScrapeBeginKeep ==
    /\ pc \in {"ready", "returned", "raised"}
    /\ \E u \in InputUrls : url' = NormalizeUrl(u)
    /\ UNCHANGED all_emails
    /\ page' = NoPage
    /\ soup' = NoPage
    /\ contact_pages' = <<>>
    /\ about_pages' = <<>>
    /\ idx' = 0
    /\ result' = NoResult
    /\ pc' = "fetching" /\ stage' = "home_scan" /\ attempt' = 0 /\ verify' = TRUE
    /\ error_status' = FALSE
    /\ reqs' = <<>>
    /\ visits' = <<[stage |-> "home_scan", target |-> 0, paused |-> FALSE,
                     got |-> "pending"]>>
    /\ seen' = {}
    /\ UNCHANGED session
    /\ UNCHANGED funcVars

\* scrape_website(u) up to its first request: lines 45-51
ScrapeBegin ==
    /\ pc \in {"ready", "returned", "raised"}
    /\ \E u \in InputUrls : url' = NormalizeUrl(u)
    /\ all_emails' = {}
    /\ page' = NoPage
    /\ soup' = NoPage
    /\ contact_pages' = <<>>
    /\ about_pages' = <<>>
    /\ idx' = 0
    /\ result' = NoResult
    /\ pc' = "fetching" /\ stage' = "home_scan" /\ attempt' = 0 /\ verify' = TRUE
    /\ error_status' = FALSE
    /\ reqs' = <<>>
    /\ visits' = <<[stage |-> "home_scan", target |-> 0, paused |-> FALSE,
                     got |-> "pending"]>>
    /\ seen' = {}
    /\ UNCHANGED session
    /\ UNCHANGED funcVars

(***************************************************************************)
(* _get_page_soup: lines 314-358.  reqs logs the requests and sleeps of    *)
(* the running call and is dropped when the call returns.                  *)
(***************************************************************************)
crawlRest == <<url, all_emails, soup, contact_pages, about_pages, idx, result, stage>>

\* return soup / return None: err tells whether the response the document was
\* parsed from carried an error status
SoupReturnsFrom(doc, err) ==
    /\ pc' = "fetched"
    /\ page' = doc
    /\ error_status' = err
    /\ reqs' = <<>>
    /\ verify' = TRUE
    /\ visits' = [visits EXCEPT ![Len(visits)].got = IF doc.ok THEN "soup" ELSE "none"]
    /\ seen' = seen \cup doc.emails

\* return soup after raise_for_status has passed / return None
SoupReturns(doc) == SoupReturnsFrom(doc, FALSE)

\* a variant of NextAttempt with one iteration more
NextAttemptOneMore(log) ==
    /\ attempt' = attempt + 1
    /\ IF attempt + 1 <= MAX_RETRIES
       THEN /\ pc' = "fetching"
            /\ reqs' = log
            /\ verify' = TRUE
            /\ UNCHANGED <<page, visits, seen, error_status>>
       ELSE SoupReturns(NoPage)

\* the end of one iteration of `for attempt in range(MAX_RETRIES)` that did not
\* return: the next iteration, or `return None` after the last
NextAttempt(log) ==
    /\ attempt' = attempt + 1
    /\ IF attempt + 1 < MAX_RETRIES
       THEN /\ pc' = "fetching"
            /\ reqs' = log
            /\ verify' = TRUE
            /\ UNCHANGED <<page, visits, seen, error_status>>
       ELSE SoupReturns(NoPage)

\* a request goes through the session of the WebScraper, which keeps its
\* connections and cookies from one request to the next
Requested == session' = session \cup {url}

\* session.get(verify=True) answers without an error status and the body parses
GetOk ==
    /\ pc = "fetching" /\ verify
    /\ \E doc \in Documents : SoupReturns(doc)
    /\ UNCHANGED <<attempt, crawlRest>>
    /\ Requested
    /\ UNCHANGED funcVars

\* session.get raises requests.exceptions.Timeout: sleep(2), next attempt
GetTimeout ==
    /\ pc = "fetching" /\ verify
    /\ NextAttempt(reqs \o <<"get", "sleep2">>)
    /\ UNCHANGED crawlRest
    /\ Requested
    /\ UNCHANGED funcVars

\* session.get raises another RequestException: sleep(2), next attempt
GetRequestError ==
    /\ pc = "fetching" /\ verify
    /\ NextAttempt(reqs \o <<"get", "sleep2">>)
    /\ UNCHANGED crawlRest
    /\ Requested
    /\ UNCHANGED funcVars

\* the response carries an error status: raise_for_status raises HTTPError,
\* a RequestException: sleep(2), next attempt
GetHttpError ==
    /\ pc = "fetching" /\ verify
    /\ NextAttempt(reqs \o <<"get", "sleep2">>)
    /\ UNCHANGED crawlRest
    /\ Requested
    /\ UNCHANGED funcVars

\* session.get raises SSLError: the handler requests again with verify=False
GetSSLError ==
    /\ pc = "fetching" /\ verify
    /\ verify' = FALSE
    /\ reqs' = Append(reqs, "get")
    /\ UNCHANGED <<pc, page, attempt, visits, seen, error_status, crawlRest>>
    /\ Requested
    /\ UNCHANGED funcVars

\* a variant of GetOtherError that goes on with the loop instead of leaving it
GetOtherErrorContinues ==
    /\ pc = "fetching" /\ verify
    /\ NextAttempt(Append(reqs, "get"))
    /\ UNCHANGED crawlRest
    /\ Requested
    /\ UNCHANGED funcVars

\* any other exception (of the request or of the parser): break, return None
GetOtherError ==
    /\ pc = "fetching" /\ verify
    /\ SoupReturns(NoPage)
    /\ UNCHANGED <<attempt, crawlRest>>
    /\ Requested
    /\ UNCHANGED funcVars

\* the request with verify=False is answered, whatever its status: return soup
BypassOk ==
    /\ pc = "fetching" /\ ~verify
    /\ \E doc \in Documents, err \in BOOLEAN : SoupReturnsFrom(doc, err)
    /\ UNCHANGED <<attempt, crawlRest>>
    /\ Requested
    /\ UNCHANGED funcVars

\* the request with verify=False raises: logged, and the loop goes on
BypassFail ==
    /\ pc = "fetching" /\ ~verify
    /\ NextAttempt(reqs \o <<"get_noverify">>)
    /\ UNCHANGED crawlRest
    /\ Requested
    /\ UNCHANGED funcVars

(***************************************************************************)
(* scrape_website: lines 48-91                                             *)
(***************************************************************************)
\* all_emails.update(<the page's emails>); get_best_email(all_emails); return the
\* email on success, otherwise go on with Continue
ScanDone(Continue) ==
    /\ all_emails' = all_emails \cup page.emails
    /\ \E valid_email \in BestEmails(all_emails') :
          IF valid_email # "" THEN Return(valid_email) /\ UNCHANGED idx
          ELSE Continue

\* lines 51-61: the homepage is scanned; without a valid email it is fetched again
HomeScanned ==
    /\ pc = "fetched" /\ stage = "home_scan"
    /\ ScanDone(StartFetch("home_links", 0, FALSE) /\ UNCHANGED <<result, idx>>)
    /\ UNCHANGED <<session, seen, url, page, soup, contact_pages, about_pages>>
    /\ UNCHANGED funcVars

\* ContactFind without `if not soup: return ""`
ContactFindNoCheck ==
    /\ pc = "fetched" /\ stage = "home_links"
    /\ soup' = page
    /\ \E urls \in FoundPages(page.contact) : contact_pages' = urls
    /\ idx' = 0
    /\ pc' = "contact_loop"
    /\ UNCHANGED <<stage, attempt, verify, error_status, reqs, visits, result>>
    /\ UNCHANGED <<session, seen, url, all_emails, page, about_pages>>
    /\ UNCHANGED funcVars

\* lines 61-66: no document, return ""; otherwise find_contact_pages(soup, url)
ContactFind ==
    /\ pc = "fetched" /\ stage = "home_links"
    /\ IF ~page.ok
       THEN Return("") /\ UNCHANGED <<soup, contact_pages, idx>>
       ELSE /\ soup' = page
            /\ IF page.bad = "contact"
               THEN Raise /\ UNCHANGED <<contact_pages, idx>>
               ELSE /\ \E urls \in FoundPages(page.contact) : contact_pages' = urls
                    /\ idx' = 0
                    /\ pc' = "contact_loop"
                    /\ UNCHANGED <<stage, attempt, verify, error_status, reqs, visits, result>>
    /\ UNCHANGED <<session, seen, url, all_emails, page, about_pages>>
    /\ UNCHANGED funcVars

\* ContactLoop over contact_pages instead of contact_pages[:2]
ContactLoopAll ==
    /\ pc = "contact_loop"
    /\ IF idx < Len(contact_pages)
       THEN /\ idx' = idx + 1
            /\ StartFetch("contact", contact_pages[idx + 1], TRUE)
       ELSE /\ pc' = "about_find"
            /\ UNCHANGED <<idx, stage, attempt, verify, error_status, reqs, visits>>
    /\ UNCHANGED <<session, seen, url, all_emails, page, soup, contact_pages, about_pages, result>>
    /\ UNCHANGED funcVars

\* ContactLoop over contact_pages[:1]
ContactLoopOne ==
    /\ pc = "contact_loop"
    /\ IF idx < Len(Take(contact_pages, 1))
       THEN /\ idx' = idx + 1
            /\ StartFetch("contact", contact_pages[idx + 1], TRUE)
       ELSE /\ pc' = "about_find"
            /\ UNCHANGED <<idx, stage, attempt, verify, error_status, reqs, visits>>
    /\ UNCHANGED <<session, seen, url, all_emails, page, soup, contact_pages, about_pages, result>>
    /\ UNCHANGED funcVars

\* lines 67-69: the next of contact_pages[:2] is fetched after sleep(1)
ContactLoop ==
    /\ pc = "contact_loop"
    /\ IF idx < Len(Take(contact_pages, MAX_CONTACT_VISITS))
       THEN /\ idx' = idx + 1
            /\ StartFetch("contact", contact_pages[idx + 1], TRUE)
       ELSE /\ pc' = "about_find"
            /\ UNCHANGED <<idx, stage, attempt, verify, error_status, reqs, visits>>
    /\ UNCHANGED <<session, seen, url, all_emails, page, soup, contact_pages, about_pages, result>>
    /\ UNCHANGED funcVars

\* ContactScanned without `if valid_email: return valid_email`
ContactScannedNoStop ==
    /\ pc = "fetched" /\ stage = "contact"
    /\ all_emails' = all_emails \cup page.emails
    /\ pc' = "contact_loop"
    /\ UNCHANGED <<idx, stage, attempt, verify, error_status, reqs, visits, result>>
    /\ UNCHANGED <<session, seen, url, page, soup, contact_pages, about_pages>>
    /\ UNCHANGED funcVars

\* ContactScanned giving up the crawl when the page could not be fetched
ContactScannedAbort ==
    /\ pc = "fetched" /\ stage = "contact"
    /\ IF ~page.ok
       THEN Return("") /\ UNCHANGED <<idx, all_emails>>
       ELSE ScanDone(/\ pc' = "contact_loop"
                     /\ UNCHANGED <<idx, stage, attempt, verify, error_status, reqs, visits, result>>)
    /\ UNCHANGED <<session, seen, url, page, soup, contact_pages, about_pages>>
    /\ UNCHANGED funcVars

\* lines 69-75: a contact page is scanned
ContactScanned ==
    /\ pc = "fetched" /\ stage = "contact"
    /\ ScanDone(/\ pc' = "contact_loop"
                /\ UNCHANGED <<idx, stage, attempt, verify, error_status, reqs, visits, result>>)
    /\ UNCHANGED <<session, seen, url, page, soup, contact_pages, about_pages>>
    /\ UNCHANGED funcVars

\* line 78: find_about_pages(soup, url)
AboutFind ==
    /\ pc = "about_find"
    /\ IF soup.bad = "about"
       THEN Raise /\ UNCHANGED <<about_pages, idx>>
       ELSE /\ \E urls \in FoundPages(soup.about) : about_pages' = urls
            /\ idx' = 0
            /\ pc' = "about_loop"
            /\ UNCHANGED <<stage, attempt, verify, error_status, reqs, visits, result>>
    /\ UNCHANGED <<session, seen, url, all_emails, page, soup, contact_pages>>
    /\ UNCHANGED funcVars

\* AboutLoop without the sleep(1) of line 80
AboutLoopNoPause ==
    /\ pc = "about_loop"
    /\ IF idx < Len(Take(about_pages, MAX_ABOUT_VISITS))
       THEN /\ idx' = idx + 1
            /\ StartFetch("about", about_pages[idx + 1], FALSE)
            /\ UNCHANGED result
       ELSE Return("") /\ UNCHANGED idx
    /\ UNCHANGED <<session, seen, url, all_emails, page, soup, contact_pages, about_pages>>
    /\ UNCHANGED funcVars

\* lines 79-81 and 89-91: the next of about_pages[:1] is fetched after sleep(1);
\* after the last, return ""
AboutLoop ==
    /\ pc = "about_loop"
    /\ IF idx < Len(Take(about_pages, MAX_ABOUT_VISITS))
       THEN /\ idx' = idx + 1
            /\ StartFetch("about", about_pages[idx + 1], TRUE)
            /\ UNCHANGED result
       ELSE Return("") /\ UNCHANGED idx
    /\ UNCHANGED <<session, seen, url, all_emails, page, soup, contact_pages, about_pages>>
    /\ UNCHANGED funcVars

\* lines 81-87: an about page is scanned
AboutScanned ==
    /\ pc = "fetched" /\ stage = "about"
    /\ ScanDone(/\ pc' = "about_loop"
                /\ UNCHANGED <<idx, stage, attempt, verify, error_status, reqs, visits, result>>)
    /\ UNCHANGED <<session, seen, url, page, soup, contact_pages, about_pages>>
    /\ UNCHANGED funcVars

vars == <<crawlVars, funcVars>>

\* no function of email_extractor.py has returned
NoResults ==
    /\ found = {} /\ again = {}
    /\ decoded = <<>>
    /\ candidate = "" /\ valid = FALSE
    /\ iterated = <<>> /\ ranked = <<>> /\ best = ""
    /\ found_urls = {} /\ pages = <<>> /\ raised = FALSE
    /\ patterns = <<>> /\ guess = "" /\ method = "" /\ lookups = <<>>
    /\ row = 0 /\ found_count = 0 /\ not_found_count = 0 /\ outcomes = <<>>
    /\ is_running = TRUE
    /\ df = <<>>
    /\ input_file = FALSE /\ start_btn = FALSE /\ stop_btn = FALSE
    /\ threads = <<>> /\ saved = {}

Init == CrawlInit /\ call = "none" /\ arg = "" /\ NoResults

Next ==
    \/ ScrapeBegin
    \/ GetOk
    \/ GetTimeout
    \/ GetRequestError
    \/ GetHttpError
    \/ GetSSLError
    \/ GetOtherError
    \/ BypassOk
    \/ BypassFail
    \/ HomeScanned
    \/ ContactFind
    \/ ContactLoop
    \/ ContactScanned
    \/ AboutFind
    \/ AboutLoop
    \/ AboutScanned

Spec == Init /\ [][Next]_vars

\* the crawler never stops between two statements, and every request it sends
\* is answered or raises
FairSpec == Init /\ [][Next]_vars /\ WF_vars(Next)

(***************************************************************************)
(* extract_emails applied to a text, and applied again to its own result   *)
(***************************************************************************)
MaxAffix == 1

\* texts with one or two addresses in the forms the patterns look for
CoreTexts ==
    { "a@b.cd", "Bob@Acme.COM", "a@b.cd|", "a@b.c|d", "a@b.c.de",
      "info @ acme . com", "sales [at] acme [dot] com", "bob(at)acme(dot)org",
      "x AT y DOT com", "info&#64;acme&#46;com", "a&#x40;b.cd",
      "a@b.cd Mail@X.org", "a@b", "call 555" }

AffixChars == {" ", "|", "1", "x", "."}

\* the strings of AffixChars of length n at most
Affixes(n) ==
    LET upTo[k \in 0..n] ==
            IF k = 0 THEN {""}
            ELSE upTo[k - 1] \cup {a \o c : a \in upTo[k - 1], c \in AffixChars}
    IN  upTo[n]

\* the texts extract_emails is applied to
Texts ==
    {""} \cup {p \o c \o q : p \in Affixes(MaxAffix), c \in CoreTexts, q \in Affixes(MaxAffix)}

ExtractInit == CrawlInit /\ call = "none" /\ arg \in Texts /\ NoResults

\* extract_emails(arg)
ExtractEmails ==
    /\ call = "none"
    /\ call' = "extract_emails"
    /\ found' = extract_emails(arg)
    /\ UNCHANGED <<arg, again, decoded, candidate, valid, iterated, ranked, best, crawlVars, moreVars>>

\* extract_emails(" ".join(found)): the set is joined in the order of its iteration
ExtractAgain ==
    /\ call = "extract_emails"
    /\ call' = "extract_again"
    /\ \E q \in Orderings(found) : again' = extract_emails(JoinSpace(q))
    /\ UNCHANGED <<arg, found, decoded, candidate, valid, iterated, ranked, best, crawlVars, moreVars>>

ExtractNext ==
    \/ ExtractEmails
    \/ ExtractAgain

SpecExtract == ExtractInit /\ [][ExtractNext]_vars

(***************************************************************************)
(* decode_cloudflare_email applied to an encoded string                    *)
(***************************************************************************)
MaxEncodedLen == 4

EncodedChars == {"4", "a", "F", "g", " ", "-"}

\* the strings of EncodedChars of length n at most
EncodedStrings(n) ==
    LET upTo[k \in 0..n] ==
            IF k = 0 THEN {""}
            ELSE upTo[k - 1] \cup {a \o c : a \in upTo[k - 1], c \in EncodedChars}
    IN  upTo[n]

\* data-cfemail values as Cloudflare writes them: the key 4a and the UTF-8
\* bytes of a@b.cd, of an address with U+00E9 in its local part, and of U+00E9
\* alone under the key 00
CloudflareSamples == {"4a2b0a2864292e", "4a89e30a2864292e", "00c3a9"}

DecodeInit ==
    /\ CrawlInit /\ call = "none" /\ NoResults
    /\ arg \in EncodedStrings(MaxEncodedLen) \cup CloudflareSamples

\* decode_cloudflare_email(arg)
DecodeCloudflareEmail ==
    /\ call = "none"
    /\ call' = "decode_cloudflare_email"
    /\ decoded' = decode_cloudflare_email(arg)
    /\ UNCHANGED <<arg, found, again, candidate, valid, iterated, ranked, best, crawlVars, moreVars>>

DecodeNext == DecodeCloudflareEmail

SpecDecode == DecodeInit /\ [][DecodeNext]_vars

(***************************************************************************)
(* is_valid_business_email, filter_valid_emails and get_best_email applied *)
(* to a set of candidates                                                  *)
(***************************************************************************)
MaxCands == 2

RECURSIVE Repeat(_, _)
\* the character c, n times
Repeat(c, n) ==
    IF n = 0 THEN ""
    ELSE IF n = 1 THEN c
    ELSE Repeat(c, n \div 2) \o Repeat(c, n - n \div 2)

\* candidates at and around each of the checks of is_valid_business_email, in
\* lower case, in upper case and with white space around them
Candidates ==
    { "info@acme.com", "bob@acme.com", "information@acme.com", "Sales@Acme.com",
      " contact@acme.com ", "a@b.cd", "@acme.com",
      "a@b.c", " a@b.c",
      Repeat("x", MAX_EMAIL_LEN - 9) \o "@acme.com",
      Repeat("x", MAX_EMAIL_LEN - 8) \o "@acme.com",
      " " \o Repeat("x", MAX_EMAIL_LEN - 9) \o "@acme.com",
      "utilisateur@domaine.com", "Utilisateur@Domaine.com",
      "bob.acme.com", "bob@sales@acme.com",
      "bob@gmail.com", "Bob@GMAIL.com",
      "bob@mysentry.org", "sprite@cdn.acme.svg",
      "0123456789abcdef0123456@acme.com", "0123456789abcdef01234567@acme.com",
      "0123456789ABCDEF01234567@acme.com", "0123456789abcdefg1234567@acme.com",
      "bob@intranet",
      "bob@" \o Repeat("d", MAX_DOMAIN_LEN - 4) \o ".com",
      "bob@" \o Repeat("d", MAX_DOMAIN_LEN - 3) \o ".com" }

\* the sets of n candidates at most
CandidateSets(n) ==
    LET upTo[k \in 0..n] ==
            IF k = 0 THEN {{}}
            ELSE upTo[k - 1] \cup {S \cup {c} : S \in upTo[k - 1], c \in Candidates}
    IN  upTo[n]

RankInit == CrawlInit /\ call = "none" /\ arg \in CandidateSets(MaxCands) /\ NoResults

\* is_valid_business_email(c) for a candidate c of arg
IsValidBusinessEmail ==
    /\ call = "none"
    /\ call' = "is_valid_business_email"
    /\ \E c \in arg : candidate' = c /\ valid' = is_valid_business_email(c)
    /\ UNCHANGED <<arg, found, again, decoded, iterated, ranked, best, crawlVars, moreVars>>

\* filter_valid_emails(arg)
FilterValidEmails ==
    /\ call = "none"
    /\ call' = "filter_valid_emails"
    /\ \E q \in Orderings(arg) : iterated' = q /\ ranked' = filter_valid_emails(q)
    /\ UNCHANGED <<arg, found, again, decoded, candidate, valid, best, crawlVars, moreVars>>

\* get_best_email(arg); ranked is the list its call of filter_valid_emails returned
GetBestEmail ==
    /\ call = "none"
    /\ call' = "get_best_email"
    /\ \E q \in Orderings(arg) :
          iterated' = q /\ ranked' = filter_valid_emails(q) /\ best' = get_best_email(q)
    /\ UNCHANGED <<arg, found, again, decoded, candidate, valid, crawlVars, moreVars>>

RankNext ==
    \/ IsValidBusinessEmail
    \/ FilterValidEmails
    \/ GetBestEmail

SpecRank == RankInit /\ [][RankNext]_vars

(***************************************************************************)
(* page_detector.py: find_contact_pages and find_about_pages.  A document  *)
(* is the list of its <a href> elements, each with its href and its text.  *)
(* urljoin and urlparse are modelled on URLs without query, fragment,      *)
(* parameters, white space or a bracketed host; only the keywords written  *)
(* in ASCII can occur in ASCII text.                                       *)
(***************************************************************************)
CONTACT_PAGE_KEYWORDS ==
    { "withtisim", "bize-ulasin", "contact", "contactez", "kontakt",
      "contact-us", "reach-us", "get-in-touch",
      "contactez-nous", "nous-contacter",
      "kontaktieren", "kontaktiere-uns",
      "contacto", "contactar", "contactenos",
      "contatto", "contattaci", "contatti",
      "contato", "fale-conosco",
      "contacteer", "neem-contact-op",
      "skontaktuj" }

ABOUT_PAGE_KEYWORDS ==
    { "hakkimizda", "hakkinda", "kurumsal", "about",
      "about-us", "who-we-are", "our-story", "company",
      "a-propos", "qui-sommes-nous", "notre-histoire",
      "uber-uns", "unternehmen",
      "sobre-nosotros", "quienes-somos", "acerca",
      "chi-siamo", "la-nostra-storia",
      "sobre", "sobre-nos", "quem-somos",
      "oandr-ons", "wie-zijn-we",
      "o-nas" }

\* urllib.parse's tables
scheme_chars == LOWER \o UPPER \o DIGITS \o "+-."

uses_relative ==
    { "", "ftp", "http", "gopher", "nntp", "imap", "wais", "file", "https", "shttp",
      "mms", "prospero", "rtsp", "rtsps", "rtspu", "sftp", "svn", "svn+ssh", "ws", "wss" }

uses_netloc ==
    { "", "ftp", "http", "gopher", "nntp", "telnet", "imap", "wais", "file", "mms",
      "https", "shttp", "snews", "prospero", "rtsp", "rtsps", "rtspu", "rsync", "svn",
      "svn+ssh", "sftp", "nfs", "git", "git+ssh", "ws", "wss" }

\* str.find(c, start), counted from 1: 0 when c does not occur from start on
Find(s, c, start) ==
    LET ps == {i \in Positions(s, c) : i >= start}
    IN  IF ps = {} THEN 0 ELSE CHOOSE i \in ps : \A j \in ps : i <= j

\* urlsplit takes what precedes the first ':' as the scheme when it starts
\* with a letter and is made of scheme characters
HasScheme(u) ==
    /\ Find(u, ":", 1) > 1
    /\ InClass(Ch(u, 1), LOWER \o UPPER)
    /\ \A j \in 1..(Find(u, ":", 1) - 1) : InClass(Ch(u, j), scheme_chars)

AfterScheme(u) == IF HasScheme(u) THEN SubSeq(u, Find(u, ":", 1) + 1, Len(u)) ELSE u

\* _splitnetloc(rest, 2): the network location ends before the next '/'
NetlocEnd(rest) == IF Find(rest, "/", 3) = 0 THEN Len(rest) ELSE Find(rest, "/", 3) - 1

\* urlsplit raises ValueError("Invalid IPv6 URL") on a bracket without its pair
InvalidIPv6(netloc) == (Positions(netloc, "[") = {}) # (Positions(netloc, "]") = {})

SplitRest(scheme, rest) ==
    IF StartsWith(rest, "//")
    THEN [scheme |-> scheme,
          netloc |-> SubSeq(rest, 3, NetlocEnd(rest)),
          path |-> SubSeq(rest, NetlocEnd(rest) + 1, Len(rest)),
          error |-> InvalidIPv6(SubSeq(rest, 3, NetlocEnd(rest)))]
    ELSE [scheme |-> scheme, netloc |-> "", path |-> rest, error |-> FALSE]

\* urlparse(u, scheme): error stands for the ValueError it raises
urlparse(u, scheme) ==
    SplitRest(IF HasScheme(u) THEN LowerStr(SubSeq(u, 1, Find(u, ":", 1) - 1)) ELSE scheme,
              AfterScheme(u))

\* urlunparse((scheme, netloc, path, '', '', ''))
urlunparse(scheme, netloc, path) ==
    (IF scheme # "" THEN scheme \o ":" ELSE "") \o
    (IF netloc # "" \/ (scheme # "" /\ scheme \in uses_netloc /\ ~StartsWith(path, "//"))
     THEN "//" \o netloc \o (IF path # "" /\ ~StartsWith(path, "/") THEN "/" ELSE "") \o path
     ELSE path)

RECURSIVE Split(_, _)
\* str.split(c)
Split(s, c) ==
    IF Find(s, c, 1) = 0 THEN <<s>>
    ELSE <<SubSeq(s, 1, Find(s, c, 1) - 1)>> \o Split(SubSeq(s, Find(s, c, 1) + 1, Len(s)), c)

RECURSIVE Join(_, _)
\* c.join(q)
Join(q, c) ==
    IF Len(q) = 0 THEN ""
    ELSE IF Len(q) = 1 THEN q[1]
    ELSE q[1] \o c \o Join(Tail(q), c)

\* base_parts: the segments of the base path without its last one, unless
\* that is empty
BaseParts(q) == IF q[Len(q)] # "" THEN SubSeq(q, 1, Len(q) - 1) ELSE q

\* segments[1:-1] = filter(None, segments[1:-1])
FilterInner(q) ==
    IF Len(q) <= 2 THEN q
    ELSE <<q[1]>> \o SelectSeq(SubSeq(q, 2, Len(q) - 1), LAMBDA x : x # "") \o <<q[Len(q)]>>

Segments(bpath, path) ==
    IF StartsWith(path, "/") THEN Split(path, "/")
    ELSE FilterInner(BaseParts(Split(bpath, "/")) \o Split(path, "/"))

RECURSIVE Resolve(_, _)
\* the loop over segments: '..' pops, '.' is skipped
Resolve(segments, resolved_path) ==
    IF Len(segments) = 0 THEN resolved_path
    ELSE IF segments[1] = ".."
         THEN Resolve(Tail(segments), SubSeq(resolved_path, 1, Len(resolved_path) - 1))
    ELSE IF segments[1] = "."
         THEN Resolve(Tail(segments), resolved_path)
    ELSE Resolve(Tail(segments), Append(resolved_path, segments[1]))

ResolvedPath(segments) ==
    Resolve(segments, <<>>)
        \o (IF segments[Len(segments)] \in {".", ".."} THEN <<"">> ELSE <<>>)

OrSlash(p) == IF p = "" THEN "/" ELSE p

\* urljoin once base and href are parsed
JoinParsed(b, r, href) ==
    IF r.scheme # b.scheme \/ r.scheme \notin uses_relative THEN href
    ELSE IF r.scheme \in uses_netloc /\ r.netloc # ""
         THEN urlunparse(r.scheme, r.netloc, r.path)
    ELSE IF r.path = ""
         THEN urlunparse(r.scheme, IF r.scheme \in uses_netloc THEN b.netloc ELSE r.netloc,
                         b.path)
    ELSE urlunparse(r.scheme, IF r.scheme \in uses_netloc THEN b.netloc ELSE r.netloc,
                    OrSlash(Join(ResolvedPath(Segments(b.path, r.path)), "/")))

\* urljoin(base, href) raises what urlparse raises
UrljoinRaises(base, href) ==
    /\ base # "" /\ href # ""
    /\ \/ urlparse(base, "").error
       \/ urlparse(href, urlparse(base, "").scheme).error

urljoin(base, href) ==
    IF base = "" THEN href
    ELSE IF href = "" THEN base
    ELSE JoinParsed(urlparse(base, ""), urlparse(href, urlparse(base, "").scheme), href)

\* variants of _is_same_domain: without the comparison, and comparing the
\* scheme as well
_is_any_domain(url1, url2) == TRUE

_is_same_origin(url1, url2) ==
    /\ ~urlparse(url1, "").error
    /\ ~urlparse(url2, "").error
    /\ urlparse(url1, "").netloc = urlparse(url2, "").netloc
    /\ urlparse(url1, "").scheme = urlparse(url2, "").scheme

\* a ValueError of urlparse makes the two URLs different domains
_is_same_domain(url1, url2) ==
    /\ ~urlparse(url1, "").error
    /\ ~urlparse(url2, "").error
    /\ urlparse(url1, "").netloc = urlparse(url2, "").netloc

\* keyword_lower in href or keyword_lower in text, for some keyword
KeywordIn(href, text, keywords) ==
    \E keyword \in keywords :
        Contains(href, LowerStr(keyword)) \/ Contains(text, LowerStr(keyword))

\* href = link.get('href', '').lower(); text = link.get_text().lower().strip()
KeywordLink(link, keywords) ==
    KeywordIn(LowerStr(link.href), StripStr(LowerStr(link.text)), keywords)

\* the links of the document with a keyword
KeywordLinks(doc, keywords) ==
    {doc[i] : i \in {j \in 1..Len(doc) : KeywordLink(doc[j], keywords)}}

\* urljoin is applied to every link with a keyword; what it raises leaves
\* _find_pages_by_keywords
FindRaises(links, base) == \E link \in links : UrljoinRaises(base, link.href)

\* found_urls at the end of the loop over the links
FoundUrls(links, base) ==
    {full_url \in {urljoin(base, link.href) : link \in links} :
        _is_same_domain(base, full_url)}

(***************************************************************************)
(* find_contact_pages and find_about_pages applied to a document and a     *)
(* base URL                                                                *)
(***************************************************************************)
MaxLinks == 4

\* links by path, by file name, by text only, absolute on the site, on the
\* site under another scheme, off the site, with a differently written
\* network location, without a keyword, and one urljoin cannot parse
AnchorList ==
    << [href |-> "/contact", text |-> "Contact us"],
       [href |-> "https://acme.com/contact", text |-> " Get in touch "],
       [href |-> "contact.html", text |-> "Write to us"],
       [href |-> "/team", text |-> "KONTAKT"],
       [href |-> "", text |-> "Contact"],
       [href |-> "http://acme.com/contact", text |-> "Contact"],
       [href |-> "https://evil.com/contact", text |-> "Contact"],
       [href |-> "//evil.com/about", text |-> "About us"],
       [href |-> "https://ACME.com/Contact", text |-> "Home"],
       [href |-> "https://acme.com:443/about", text |-> "Company"],
       [href |-> "../About/", text |-> "Who we are"],
       [href |-> "https://acme.com/about-us", text |-> "About"],
       [href |-> "mailto:contact@acme.com", text |-> "Mail"],
       [href |-> "/blog", text |-> "Blog"],
       [href |-> "//[/about", text |-> "Contact"] >>

BaseUrls == {"https://acme.com", "https://acme.com/en/", "acme.com"}

RECURSIVE Ascending(_)
\* the numbers of S in ascending order
Ascending(S) ==
    IF S = {} THEN <<>>
    ELSE <<CHOOSE i \in S : \A j \in S : i <= j>>
             \o Ascending(S \ {CHOOSE i \in S : \A j \in S : i <= j})

Picked(q) == [i \in 1..Len(q) |-> AnchorList[q[i]]]

\* the documents with n links of AnchorList at most, in its order
LinkDocs(n) ==
    {Picked(Ascending(S)) : S \in {T \in SUBSET (1..Len(AnchorList)) : Cardinality(T) <= n}}

LinksInit ==
    /\ CrawlInit /\ call = "none" /\ NoResults
    /\ arg \in [soup : LinkDocs(MaxLinks), base_url : BaseUrls]

\* the links with a keyword are either all resolved or one of them raises
FindAmong(links, base) ==
    IF FindRaises(links, base)
    THEN raised' = TRUE /\ UNCHANGED <<found_urls, pages>>
    ELSE /\ raised' = FALSE
         /\ found_urls' = FoundUrls(links, base)
         /\ pages' \in FoundPages(found_urls')

\* _find_pages_by_keywords(arg.soup, arg.base_url, keywords, ...)
FindPagesByKeywords(name, keywords) ==
    /\ call = "none"
    /\ call' = name
    /\ FindAmong(KeywordLinks(arg.soup, keywords), arg.base_url)
    /\ UNCHANGED <<arg, emailVars, finderVars, batchVars, guiVars, crawlVars>>

FindContactPages == FindPagesByKeywords("find_contact_pages", CONTACT_PAGE_KEYWORDS)

FindAboutPages == FindPagesByKeywords("find_about_pages", ABOUT_PAGE_KEYWORDS)

LinksNext ==
    \/ FindContactPages
    \/ FindAboutPages

SpecLinks == LinksInit /\ [][LinksNext]_vars

(***************************************************************************)
(* email_finder.py: generate_common_patterns, _clean_domain and            *)
(* find_email_enhanced.  None is modelled by the empty string: no branch   *)
(* returns an empty address.  A domain carries no '?', '#' or ';'.         *)
(***************************************************************************)
standard_prefixes ==
    << "info", "contact", "hello", "mail", "office",
       "support", "sales", "admin", "service",
       "communication", "general", "inquiry", "welcome" >>

french_prefixes ==
    << "contact", "info", "commercial", "accueil", "direction", "vente", "service.client" >>

german_prefixes == << "info", "kontakt", "office", "verwaltung" >>

spanish_prefixes == << "info", "contacto", "oficina", "ventas" >>

turkish_prefixes == << "info", "iletisim", "destek", "satis" >>

company_suffixes == << "ltd", "inc", "llc", "sa", "sas", "gmbh", "ag" >>

_is_french_domain(domain) == EndsWith(domain, ".fr")

\* standard_prefixes after the extensions by the ending of the domain
PrefixesFor(domain) ==
    standard_prefixes
        \o (IF _is_french_domain(domain) THEN french_prefixes ELSE <<>>)
        \o (IF EndsWith(domain, ".de") THEN german_prefixes ELSE <<>>)
        \o (IF EndsWith(domain, ".es") THEN spanish_prefixes ELSE <<>>)
        \o (IF EndsWith(domain, ".tr") THEN turkish_prefixes ELSE <<>>)

\* patterns.append(f"{prefix}@{domain}") for each prefix
PrefixPatterns(prefixes, domain) ==
    [i \in 1..Len(prefixes) |-> prefixes[i] \o "@" \o domain]

RECURSIVE RemoveSuffixes(_, _)
\* clean_name = clean_name.replace(suffix, '').strip(), one suffix after the other
RemoveSuffixes(clean_name, suffixes) ==
    IF Len(suffixes) = 0 THEN clean_name
    ELSE RemoveSuffixes(StripStr(ReplaceAll(clean_name, suffixes[1], "")), Tail(suffixes))

CleanName(company_name) ==
    RemoveSuffixes(StripStr(LowerStr(company_name)), company_suffixes)

\* the two insertions at the head of the list
NamePatterns(clean_name, domain) ==
    << ReplaceAll(clean_name, " ", ".") \o "@" \o domain,
       ReplaceAll(clean_name, " ", "") \o "@" \o domain >>

\* a variant that appends the name-based patterns
NamePatternsLast(company_name, domain) ==
    PrefixPatterns(PrefixesFor(domain), domain)
        \o (IF company_name # "" /\ CleanName(company_name) # ""
            THEN NamePatterns(CleanName(company_name), domain) ELSE <<>>)

\* generate_common_patterns once the domain is in lower case and stripped
PatternsFor(company_name, domain) ==
    (IF company_name # "" /\ CleanName(company_name) # ""
     THEN NamePatterns(CleanName(company_name), domain) ELSE <<>>)
        \o PrefixPatterns(PrefixesFor(domain), domain)

\* a variant that generates nothing
generate_no_patterns(domain, company_name) == <<>>

generate_common_patterns(domain, company_name) ==
    PatternsFor(company_name, StripStr(LowerStr(domain)))

\* parsed.netloc or parsed.path; the text itself when urlparse raises
NetlocOrPath(s) ==
    IF urlparse(s, "").error THEN s
    ELSE IF urlparse(s, "").netloc # "" THEN urlparse(s, "").netloc
    ELSE urlparse(s, "").path

\* _clean_domain once the text is stripped and in lower case
CleanLowered(s) ==
    IF Contains(s, "://") \/ StartsWith(s, "www.")
    THEN NetlocOrPath(IF StartsWith(s, "http") THEN s ELSE "http://" \o s)
    ELSE s

\* domain.replace('www.', '') and domain.split('/')[0].split('?')[0]
CutDomain(domain) == Split(Split(ReplaceAll(domain, "www.", ""), "/")[1], "?")[1]

_clean_domain(url_or_domain) ==
    IF url_or_domain = "" THEN ""
    ELSE CutDomain(CleanLowered(LowerStr(StripStr(url_or_domain))))

\* email and '@' in email
Usable(email) == email # "" /\ Contains(email, "@")

\* the first usable element of the list, 0 when there is none
FirstUsable(q) ==
    IF \E i \in 1..Len(q) : Usable(q[i])
    THEN CHOOSE i \in 1..Len(q) : Usable(q[i]) /\ \A j \in 1..(i - 1) : ~Usable(q[j])
    ELSE 0

(***************************************************************************)
(* generate_common_patterns and find_email_enhanced applied to a domain,   *)
(* a company name and a set of scraped addresses                           *)
(***************************************************************************)
\* domains as the callers pass them: bare, with white space and capitals, as
\* URLs, with each of the endings that extend the prefixes
FinderDomains ==
    { "acme.com", " Acme.COM ", "https://www.acme.fr/contact", "www.acme.de",
      "acme.es", "acme.com.tr", "", "http://[acme" }

\* company names: none, plain, with a legal form, made of a legal form only,
\* blank, and with the letters of a legal form inside a word
CompanyNames ==
    { "", "Acme", "Acme Tools Ltd", "GmbH", " ", "Sagem SA", "Acme  Inc Tools" }

ScrapedPool == { "bob@acme.com", "info@acme.org", "", "not-an-email" }

\* what extract_whois_emails may return
WhoisAnswers == { <<>>, <<"owner@acme.com">> }

FinderInit ==
    /\ CrawlInit /\ call = "none" /\ NoResults
    /\ arg \in [domain : FinderDomains, company_name : CompanyNames,
                scraped_emails : SUBSET ScrapedPool]

\* generate_common_patterns(arg.domain, arg.company_name)
GenerateCommonPatterns ==
    /\ call = "none"
    /\ call' = "generate_common_patterns"
    /\ patterns' = generate_common_patterns(arg.domain, arg.company_name)
    /\ UNCHANGED <<arg, guess, method, lookups, emailVars, linkVars, batchVars, guiVars, crawlVars>>

\* the three layers: q is scraped_emails in the order of its iteration, generated
\* what generate_common_patterns returns, whois_emails what the lookup would
Layers(q, generated, whois_emails) ==
    IF FirstUsable(q) # 0
    THEN /\ guess' = q[FirstUsable(q)] /\ method' = "scraped"
         /\ UNCHANGED <<patterns, lookups>>
    ELSE IF Len(generated) > 0
    THEN /\ guess' = generated[1] /\ method' = "pattern"
         /\ patterns' = generated
         /\ UNCHANGED lookups
    ELSE /\ patterns' = generated
         /\ lookups' = Append(lookups, "whois")
         /\ IF Len(whois_emails) > 0
            THEN guess' = whois_emails[1] /\ method' = "whois"
            ELSE guess' = "" /\ method' = "none"

\* find_email_enhanced(arg.domain, arg.company_name, arg.scraped_emails)
FindEmailEnhanced ==
    /\ call = "none"
    /\ call' = "find_email_enhanced"
    /\ \E q \in Orderings(arg.scraped_emails) : \E whois_emails \in WhoisAnswers :
          Layers(q, generate_common_patterns(_clean_domain(arg.domain), arg.company_name),
                 whois_emails)
    /\ UNCHANGED <<arg, emailVars, linkVars, batchVars, guiVars, crawlVars>>

FinderNext ==
    \/ GenerateCommonPatterns
    \/ FindEmailEnhanced

SpecFinder == FinderInit /\ [][FinderNext]_vars

(***************************************************************************)
(* main.py and gui.py: the loop over the records of a batch.  The crawl of *)
(* a record is taken by its outcome: scrape_website returns an email,      *)
(* returns the empty string, or an exception leaves the try block.  In     *)
(* gui.py the user may stop the run (is_running) between two records.      *)
(***************************************************************************)
MaxRecords == 3

Websites == {"acme.com", "other.org"}

\* the lists of n records at most that get_websites returns
RecordLists(n) == UNION {[1..k -> Websites] : k \in 0..n}

BatchInit ==
    /\ CrawlInit /\ call = "none" /\ NoResults
    /\ arg \in [websites : RecordLists(MaxRecords), gui : BOOLEAN]

\* the addresses a crawl may return
FoundAddresses == {"info@acme.com", "office@other.org"}

\* up to the loop: read_excel and get_websites, whose records are the rows
\* without an email; without records there is nothing to search
BatchBegin ==
    /\ call = "none"
    /\ call' = IF Len(arg.websites) = 0 THEN "batch_done" ELSE "batch_loop"
    /\ df' = [k \in 1..Len(arg.websites) |-> ""]
    /\ UNCHANGED <<arg, row, found_count, not_found_count, outcomes, is_running>>
    /\ UNCHANGED <<emailVars, linkVars, finderVars, guiVars, crawlVars>>

\* the loop takes its next record
NextRecord ==
    /\ call = "batch_loop"
    /\ row < Len(arg.websites)
    /\ arg.gui => is_running
    /\ row' = row + 1
    /\ UNCHANGED <<arg, call, is_running>>
    /\ UNCHANGED <<emailVars, linkVars, finderVars, guiVars, crawlVars>>

\* email = scraper.scrape_website(website) is not empty: update_email
RecordFound ==
    /\ NextRecord
    /\ found_count' = found_count + 1
    /\ \E email \in FoundAddresses :
          /\ df' = [df EXCEPT ![row'] = email]
          /\ outcomes' = Append(outcomes, [website |-> arg.websites[row'],
                                           outcome |-> "found", email |-> email])
    /\ UNCHANGED not_found_count

\* a variant of RecordNotFound that notes the failure in the email field
RecordNotFoundNoted ==
    /\ NextRecord
    /\ not_found_count' = not_found_count + 1
    /\ df' = [df EXCEPT ![row'] = "-"]
    /\ outcomes' = Append(outcomes, [website |-> arg.websites[row'],
                                     outcome |-> "not_found", email |-> ""])
    /\ UNCHANGED found_count

\* scrape_website returns ''
RecordNotFound ==
    /\ NextRecord
    /\ not_found_count' = not_found_count + 1
    /\ outcomes' = Append(outcomes, [website |-> arg.websites[row'],
                                     outcome |-> "not_found", email |-> ""])
    /\ UNCHANGED <<found_count, df>>

\* a variant: the exception leaves the loop
RecordRaisedAborts ==
    /\ call = "batch_loop"
    /\ row < Len(arg.websites)
    /\ arg.gui => is_running
    /\ row' = row + 1
    /\ call' = "batch_done"
    /\ outcomes' = Append(outcomes, [website |-> arg.websites[row'],
                                     outcome |-> "error", email |-> ""])
    /\ UNCHANGED <<arg, is_running, found_count, not_found_count, df>>
    /\ UNCHANGED <<emailVars, linkVars, finderVars, guiVars, crawlVars>>

\* an exception leaves the try block, raised by scrape_website or, after it
\* returned an email, by update_email: except Exception counts the record as
\* not found and the loop goes on
RecordRaised ==
    /\ NextRecord
    /\ not_found_count' = not_found_count + 1
    /\ \E email \in FoundAddresses \cup {""} :
          outcomes' = Append(outcomes, [website |-> arg.websites[row'],
                                        outcome |-> "error", email |-> email])
    /\ UNCHANGED <<found_count, df>>

\* gui.py: the user stops the run
StopAnalysis ==
    /\ call = "batch_loop"
    /\ arg.gui /\ is_running
    /\ is_running' = FALSE
    /\ UNCHANGED <<arg, call, row, found_count, not_found_count, outcomes, df>>
    /\ UNCHANGED <<emailVars, linkVars, finderVars, guiVars, crawlVars>>

\* the loop ends: after the last record, or in gui.py once the run is stopped
BatchEnd ==
    /\ call = "batch_loop"
    /\ row = Len(arg.websites) \/ (arg.gui /\ ~is_running)
    /\ call' = "batch_done"
    /\ UNCHANGED <<arg, row, found_count, not_found_count, outcomes, is_running, df>>
    /\ UNCHANGED <<emailVars, linkVars, finderVars, guiVars, crawlVars>>

BatchNext ==
    \/ BatchBegin
    \/ RecordFound
    \/ RecordNotFound
    \/ RecordRaised
    \/ StopAnalysis
    \/ BatchEnd

SpecBatch == BatchInit /\ [][BatchNext]_vars

(***************************************************************************)
(* gui.py: the window and its run_analysis threads.  The user selects a    *)
(* file, starts and stops; a button can be clicked while it is enabled.    *)
(* A thread runs run_analysis statement by statement, and the window       *)
(* handles clicks between any two of its statements.  A thread is at the   *)
(* head of the loop over the sheets (sheet_loop), at the head of the loop  *)
(* over the websites of a sheet (site_loop), past the test of that loop    *)
(* (site_taken), inside scrape_website (crawling), at the test before the  *)
(* results are saved (save_check), writing them (saving), in the finally   *)
(* block (finally) or at its end (done).                                   *)
(***************************************************************************)
MaxThreads == 2
MaxSheets == 2
MaxSites == 1

\* threading.Thread(target=self.run_analysis).start()
NewThread ==
    [pc |-> "sheet_loop", sheet |-> 0, site |-> 0, stopped |-> FALSE, broke |-> FALSE]

\* the thread has not left run_analysis
Active(t) == threads[t].pc # "done"

guiRest == <<call, arg, emailVars, linkVars, finderVars, crawlVars,
             row, found_count, not_found_count, outcomes, df>>

\* EmailScraperGUI.__init__: lines 46-49, and the buttons of setup_ui
GuiInit ==
    /\ CrawlInit /\ call = "none" /\ arg = ""
    /\ found = {} /\ again = {}
    /\ decoded = <<>>
    /\ candidate = "" /\ valid = FALSE
    /\ iterated = <<>> /\ ranked = <<>> /\ best = ""
    /\ found_urls = {} /\ pages = <<>> /\ raised = FALSE
    /\ patterns = <<>> /\ guess = "" /\ method = "" /\ lookups = <<>>
    /\ row = 0 /\ found_count = 0 /\ not_found_count = 0 /\ outcomes = <<>>
    /\ df = <<>>
    /\ is_running = FALSE
    /\ input_file = FALSE /\ start_btn = FALSE /\ stop_btn = FALSE
    /\ threads = <<>> /\ saved = {}

\* select_input_file with a file chosen in the dialog
select_input_file ==
    /\ input_file' = TRUE
    /\ start_btn' = TRUE
    /\ UNCHANGED <<stop_btn, is_running, threads, saved, guiRest>>

\* start_analysis, a click on the enabled Start Analysis button; without a
\* file it shows an error and returns
start_analysis ==
    /\ start_btn
    /\ input_file
    /\ Len(threads) < MaxThreads
    /\ start_btn' = FALSE
    /\ stop_btn' = TRUE
    /\ is_running' = TRUE
    /\ threads' = Append(threads, NewThread)
    /\ UNCHANGED <<input_file, saved, guiRest>>

\* stop_analysis, a click on the enabled Stop button; the threads that are
\* active are marked as stopped
stop_analysis ==
    /\ stop_btn
    /\ is_running' = FALSE
    /\ stop_btn' = FALSE
    /\ threads' = [t \in 1..Len(threads) |->
                     IF Active(t) THEN [threads[t] EXCEPT !.stopped = TRUE]
                     ELSE threads[t]]
    /\ UNCHANGED <<input_file, start_btn, saved, guiRest>>

\* a step of thread t that touches nothing but the thread
ThreadStep(t, next) ==
    /\ threads' = [threads EXCEPT ![t] = next]
    /\ UNCHANGED <<input_file, start_btn, stop_btn, is_running, saved, guiRest>>

\* lines 312-314: the head of the loop over the sheets
RunSheetLoop(t) ==
    /\ threads[t].pc = "sheet_loop"
    /\ ThreadStep(t,
          IF threads[t].sheet = MaxSheets
          THEN [threads[t] EXCEPT !.pc = "save_check"]
          ELSE IF ~is_running
          THEN [threads[t] EXCEPT !.pc = "save_check", !.broke = TRUE]
          ELSE [threads[t] EXCEPT !.pc = "site_loop", !.sheet = @ + 1, !.site = 0])

\* lines 342-344: the head of the loop over the websites of the sheet
RunSiteLoop(t) ==
    /\ threads[t].pc = "site_loop"
    /\ ThreadStep(t,
          IF threads[t].site = MaxSites
          THEN [threads[t] EXCEPT !.pc = "sheet_loop"]
          ELSE IF ~is_running
          THEN [threads[t] EXCEPT !.pc = "sheet_loop", !.broke = TRUE]
          ELSE [threads[t] EXCEPT !.pc = "site_taken", !.site = @ + 1])

\* lines 346-366: the record is logged and scrape_website is called
RunScrape(t) ==
    /\ threads[t].pc = "site_taken"
    /\ ThreadStep(t, [threads[t] EXCEPT !.pc = "crawling"])

\* lines 366-390: scrape_website returns or raises and the record is counted
RunScraped(t) ==
    /\ threads[t].pc = "crawling"
    /\ ThreadStep(t, [threads[t] EXCEPT !.pc = "site_loop"])

\* line 407: if self.is_running
RunSaveCheck(t) ==
    /\ threads[t].pc = "save_check"
    /\ ThreadStep(t, [threads[t] EXCEPT !.pc = IF is_running THEN "saving" ELSE "finally"])

\* lines 408-420: write_excel / write_excel_multisheet
RunSave(t) ==
    /\ threads[t].pc = "saving"
    /\ saved' = saved \cup {t}
    /\ threads' = [threads EXCEPT ![t].pc = "finally"]
    /\ UNCHANGED <<input_file, start_btn, stop_btn, is_running, guiRest>>

\* lines 447-451: the finally block
RunFinally(t) ==
    /\ threads[t].pc = "finally"
    /\ start_btn' = TRUE
    /\ stop_btn' = FALSE
    /\ is_running' = FALSE
    /\ threads' = [threads EXCEPT ![t].pc = "done"]
    /\ UNCHANGED <<input_file, saved, guiRest>>

GuiNext ==
    \/ select_input_file
    \/ start_analysis
    \/ stop_analysis
    \/ \E t \in 1..Len(threads) : RunSheetLoop(t)
    \/ \E t \in 1..Len(threads) : RunSiteLoop(t)
    \/ \E t \in 1..Len(threads) : RunScrape(t)
    \/ \E t \in 1..Len(threads) : RunScraped(t)
    \/ \E t \in 1..Len(threads) : RunSaveCheck(t)
    \/ \E t \in 1..Len(threads) : RunSave(t)
    \/ \E t \in 1..Len(threads) : RunFinally(t)

SpecGui == GuiInit /\ [][GuiNext]_vars

(***************************************************************************)
(* Properties of the crawl                                                 *)
(***************************************************************************)
ScanStages == {"home_scan", "contact", "about"}
VisitsOf(st) == {i \in 1..Len(visits) : visits[i].stage = st}
\* is_valid_business_email on the emails of the crawl, tabulated
ValidCrawlEmail == [e \in CrawlEmails |-> is_valid_business_email(e)] @@ <<>>
HasValid(S) == \E e \in S : ValidCrawlEmail[e]

\* C1: first success wins.  The step in which the scan of a page (homepage,
\* contact page or about page) leaves a valid business email in all_emails
\* returns a valid email of that set and starts no page visit; a page visit is
\* started only while all_emails holds no valid email, so after a success on a
\* contact page no about page is fetched.
C1_FirstSuccessWins ==
    [][ /\ (pc = "fetched" /\ stage \in ScanStages /\ HasValid(all_emails'))
            => /\ pc' = "returned"
               /\ result' \in all_emails'
               /\ ValidCrawlEmail[result']
               /\ visits' = visits
        /\ (Len(visits') > Len(visits) /\ Len(visits) > 0) => ~HasValid(all_emails')
        /\ (pc' = "returned" /\ result' # "" /\ visits[Len(visits)].stage = "contact")
            => VisitsOf("about") = {} /\ visits' = visits
      ]_vars

\* a contact page yielded the returned email while the homepage linked to an
\* about page, which was not fetched
C1_Witness ==
    /\ pc = "returned"
    /\ result \in all_emails
    /\ ValidCrawlEmail[result]
    /\ visits[Len(visits)].stage = "contact"
    /\ soup.about # {}
    /\ VisitsOf("about") = {}

\* C2 as stated: when the fetch of the homepage has failed, the crawl ends with
\* the empty result and fetches no contact page and no about page.
C2_HomeFailureEndsCrawl ==
    (Len(visits) > 0 /\ visits[1].got = "none")
        => /\ VisitsOf("contact") = {}
           /\ VisitsOf("about") = {}
           /\ pc = "returned" => result = ""

\* C2, amended: the crawl ends at once with the empty result when the second
\* fetch of the homepage (line 61, made once the scan has left no valid email)
\* fails: no further page is fetched and nothing is raised.  A scan fetch that
\* failed is followed by that second fetch of the homepage, and so a homepage
\* that is not fetched at all ends the crawl with the empty result.
C2_LinkFetchFailureEndsCrawl ==
    /\ (Len(visits) >= 2 /\ visits[2].got = "none")
           => /\ Len(visits) = 2
              /\ pc \in {"fetched", "returned"}
              /\ pc = "returned" => result = ""
    /\ (Len(visits) > 0 /\ visits[1].got = "none" /\ pc # "fetched")
           => /\ Len(visits) >= 2
              /\ visits[2].stage = "home_links"
              /\ visits[2].target = 0

\* the homepage was fetched and scanned, its second fetch failed, and the
\* crawl returned the empty result
C2_Witness ==
    /\ pc = "returned"
    /\ result = ""
    /\ Len(visits) = 2
    /\ visits[1].got = "soup"
    /\ visits[2].got = "none"

\* C3: a fetch failure on a contact page or on the about page is local.  The
\* step that takes the failed fetch adds nothing to all_emails, returns nothing
\* and raises nothing: it goes back to the loop it is in; and the failed contact
\* page is followed by the next selected contact page, if there is one, or by the
\* about stage.
C3_SecondaryFailureIsLocal ==
    [][ /\ (pc = "fetched" /\ stage \in {"contact", "about"} /\ ~page.ok)
            => /\ all_emails' = all_emails
               /\ pc' = (IF stage = "contact" THEN "contact_loop" ELSE "about_loop")
               /\ result' = result
               /\ visits' = visits
        /\ (pc = "contact_loop" /\ idx > 0 /\ visits[Len(visits)].got = "none")
            => IF idx < Len(contact_pages) /\ idx < MAX_CONTACT_VISITS
               THEN /\ pc' = "fetching"
                    /\ visits' = Append(visits, [stage |-> "contact",
                                                 target |-> contact_pages[idx + 1],
                                                 paused |-> TRUE, got |-> "pending"])
               ELSE pc' = "about_find" /\ visits' = visits
      ]_vars

\* the first contact page could not be fetched and the second one was fetched
C3_Witness ==
    /\ Len(visits) >= 4
    /\ visits[3].stage = "contact" /\ visits[3].got = "none"
    /\ visits[4].stage = "contact" /\ visits[4].got = "soup"
    /\ visits[4].target = contact_pages[2]

\* C4: one crawl visits, besides the homepage, at most 2 contact pages and at
\* most 1 about page, whatever number of links the homepage document holds.
C4_BoundedCrawl ==
    /\ Cardinality(VisitsOf("contact")) <= 2
    /\ Cardinality(VisitsOf("about")) <= 1
    /\ \A i \in 1..Len(visits) : visits[i].target = 0 <=> i <= 2
    /\ Len(visits) <= 5

\* the homepage held more contact links and more about links than are visited,
\* and the crawl ended after visiting 2 contact pages and 1 about page
C4_Witness ==
    /\ pc = "returned"
    /\ Cardinality(soup.contact) > 2
    /\ Cardinality(soup.about) > 1
    /\ Cardinality(VisitsOf("contact")) = 2
    /\ Cardinality(VisitsOf("about")) = 1

(***************************************************************************)
(* Properties of the pattern matcher                                       *)
(***************************************************************************)
\* C5: every element of extract_emails(text) is lower-cased and at least 6
\* characters long, no two elements are the same address, and the result for
\* the empty text is the empty set.
C5_ExtractedAreClean ==
    call \in {"extract_emails", "extract_again"}
        => /\ \A e \in found : e = LowerStr(e) /\ Len(e) >= 6
           /\ \A e, f \in found : LowerStr(e) = LowerStr(f) => e = f
           /\ arg = "" => found = {}

\* an address written with capital letters has been extracted
C5_Witness ==
    call = "extract_emails" /\ arg = "Bob@Acme.COM" /\ found = {"bob@acme.com"}

\* C6 as stated: extract_emails applied to the elements of extract_emails(text),
\* joined by single spaces, yields the same set.
C6_ReapplyIdempotent == call = "extract_again" => again = found

\* C7 as stated: decode_cloudflare_email returns the empty string for every
\* malformed input: a string of odd length or one with a character that is no
\* hex digit.
C7_MalformedDecodesToEmpty ==
    (/\ call = "decode_cloudflare_email"
     /\ \/ Len(arg) % 2 = 1
        \/ \E i \in 1..Len(arg) : Ch(arg, i) \notin HexDigits)
        => decoded = <<>>

(***************************************************************************)
(* Properties of the validator and ranker                                  *)
(***************************************************************************)
\* the rejection conditions of the validator, read on the string c
ListedRejection(c) ==
    \/ Len(c) < MIN_EMAIL_LEN \/ Len(c) > MAX_EMAIL_LEN
    \/ c \in EXAMPLE_EMAILS
    \/ Cardinality(Positions(c, "@")) # 1
    \/ /\ Cardinality(Positions(c, "@")) = 1
       /\ \/ DomainPart(c) \in BLACKLISTED_DOMAINS
          \/ \E k \in system_keywords : Contains(LowerStr(DomainPart(c)), k)
          \/ \E x \in file_extensions : EndsWith(c, x) \/ EndsWith(DomainPart(c), x)
          \/ /\ Len(LocalPart(c)) >= MIN_HEX_LOCAL
             /\ \A i \in 1..Len(LocalPart(c)) : Ch(LocalPart(c), i) \in CharsOf(HEXLOWER)
          \/ ~Contains(DomainPart(c), ".")
          \/ Len(DomainPart(c)) > MAX_DOMAIN_LEN

Normalized(c) == StripStr(LowerStr(c))

\* C8 as stated: is_valid_business_email(candidate) is False exactly when one
\* of the listed rejection conditions holds for the candidate.
C8_RejectsExactlyListed ==
    call = "is_valid_business_email" => (valid = FALSE <=> ListedRejection(candidate))

\* C8, amended: is_valid_business_email(candidate) is False exactly when one of
\* the listed rejection conditions holds for the candidate once it is
\* lower-cased and stripped of the white space around it, and True otherwise.
C8_RejectsExactlyListedNormalized ==
    call = "is_valid_business_email" => (valid = FALSE <=> ListedRejection(Normalized(candidate)))

\* a candidate is rejected for what it is once normalised: as given, none of
\* the conditions holds for it
C8_Witness ==
    call = "is_valid_business_email" /\ valid = FALSE /\ ~ListedRejection(candidate)

\* C9: filter_valid_emails returns no placeholder address and no address of a
\* denylisted domain, in whatever letter case and with whatever white space
\* around it the candidate was given.
C9_NoDenylistedReturned ==
    call = "filter_valid_emails"
        => \A i \in 1..Len(ranked) :
              /\ ranked[i] \notin EXAMPLE_EMAILS
              /\ Normalized(ranked[i]) \notin EXAMPLE_EMAILS
              /\ DomainPart(ranked[i]) \notin BLACKLISTED_DOMAINS
              /\ DomainPart(Normalized(ranked[i])) \notin BLACKLISTED_DOMAINS

\* of two candidates one is an address of a denylisted domain written with
\* capital letters, and the other one is returned
C9_Witness ==
    /\ call = "filter_valid_emails"
    /\ "Bob@GMAIL.com" \in arg
    /\ ranked = <<"bob@acme.com">>

\* the local-part of e starts with one of info, contact, sales, commercial
LocalStartsWithPriority(e) ==
    \E w \in {"info", "contact", "sales", "commercial"} : StartsWith(LocalPart(e), w)

\* the local-part of e is one of info, contact, sales, commercial
LocalIsPriority(e) == LocalPart(e) \in {"info", "contact", "sales", "commercial"}

\* the list is exactly the valid candidates of S, each once
ExactlyValid(list, S) ==
    /\ SeqToSet(list) = {c \in S : is_valid_business_email(c)}
    /\ Len(list) = Cardinality(SeqToSet(list))

\* the first element of the list, or the empty value
FirstOrEmpty(list) == IF list = <<>> THEN "" ELSE list[1]

\* C10 as stated: filter_valid_emails returns exactly the valid candidates,
\* every address whose local-part starts with one of info, contact, sales,
\* commercial before every address whose local-part does not; get_best_email
\* returns the first element of that list, or the empty value.
C10_PriorityByLocalPrefix ==
    /\ call = "filter_valid_emails"
          => /\ ExactlyValid(ranked, arg)
             /\ \A i, j \in 1..Len(ranked) :
                   LocalStartsWithPriority(ranked[i]) /\ ~LocalStartsWithPriority(ranked[j])
                       => i < j
    /\ call = "get_best_email" => ExactlyValid(ranked, arg) /\ best = FirstOrEmpty(ranked)

\* C10, amended: filter_valid_emails returns exactly the valid candidates,
\* every address whose local-part is one of info, contact, sales, commercial
\* before every other address; get_best_email returns the first element of
\* that list, or the empty value.
C10_PriorityByLocalPart ==
    /\ call = "filter_valid_emails"
          => /\ ExactlyValid(ranked, arg)
             /\ \A i, j \in 1..Len(ranked) :
                   LocalIsPriority(ranked[i]) /\ ~LocalIsPriority(ranked[j]) => i < j
    /\ call = "get_best_email" => ExactlyValid(ranked, arg) /\ best = FirstOrEmpty(ranked)

\* the set was iterated with information@acme.com first, and info@acme.com
\* is returned ahead of it
C10_Witness ==
    /\ call = "filter_valid_emails"
    /\ iterated = <<"information@acme.com", "info@acme.com">>
    /\ ranked = <<"info@acme.com", "information@acme.com">>

(***************************************************************************)
(* Properties of find_contact_pages and find_about_pages                   *)
(***************************************************************************)
\* one of the two functions was applied and returned its list
LinksReturned == call \in {"find_contact_pages", "find_about_pages"} /\ ~raised

\* the keywords the applied function looks for
KeywordsOf(name) ==
    IF name = "find_contact_pages" THEN CONTACT_PAGE_KEYWORDS ELSE ABOUT_PAGE_KEYWORDS

\* the part of a network location after its last '@'
AfterAt(netloc) ==
    IF Positions(netloc, "@") = {} THEN netloc
    ELSE SubSeq(netloc,
                (CHOOSE i \in Positions(netloc, "@") :
                    \A j \in Positions(netloc, "@") : j <= i) + 1,
                Len(netloc))

BeforeColon(hostinfo) ==
    IF Find(hostinfo, ":", 1) = 0 THEN hostinfo
    ELSE SubSeq(hostinfo, 1, Find(hostinfo, ":", 1) - 1)

\* the host of a URL as urlparse(u).hostname gives it: without user
\* information and port, in lower case, "" when the URL has none
Hostname(u) == LowerStr(BeforeColon(AfterAt(urlparse(u, "").netloc)))

SchemeOf(u) == urlparse(u, "").scheme
NetlocOf(u) == urlparse(u, "").netloc

\* the links of the document that carry a keyword of the applied function
Matching == {k \in 1..Len(arg.soup) : KeywordLink(arg.soup[k], KeywordsOf(call))}

\* C11: find_contact_pages and find_about_pages never return a URL whose host
\* differs from the host of base_url, also when a keyword matches a link with
\* an absolute off-site href.
C11_ReturnedOnBaseHost ==
    LinksReturned =>
        \A i \in 1..Len(pages) : Hostname(pages[i]) = Hostname(arg.base_url)

\* a list was returned for a document in which a keyword matches an absolute
\* link to another host than that of base_url
C11_Witness ==
    /\ LinksReturned
    /\ pages # <<>>
    /\ Hostname(arg.base_url) # ""
    /\ \E k \in Matching :
          /\ HasScheme(arg.soup[k].href)
          /\ Hostname(arg.soup[k].href) \notin {"", Hostname(arg.base_url)}

\* C12 as stated: every kept URL has the scheme and the host of base_url.
C12_SameSchemeAndHost ==
    LinksReturned =>
        \A full_url \in found_urls :
            /\ SchemeOf(full_url) = SchemeOf(arg.base_url)
            /\ Hostname(full_url) = Hostname(arg.base_url)

\* C12: a link with a keyword is kept if and only if its resolved URL has the
\* network location of base_url, as written; the scheme is not compared.
C12_SameNetloc ==
    LinksReturned =>
        /\ \A full_url \in found_urls : NetlocOf(full_url) = NetlocOf(arg.base_url)
        /\ \A k \in Matching :
              NetlocOf(urljoin(arg.base_url, arg.soup[k].href)) = NetlocOf(arg.base_url)
                  => urljoin(arg.base_url, arg.soup[k].href) \in found_urls

\* a URL of the host of base_url was kept under another scheme
C12_Witness ==
    /\ LinksReturned
    /\ \E full_url \in found_urls :
          /\ Hostname(full_url) = Hostname(arg.base_url)
          /\ SchemeOf(full_url) # SchemeOf(arg.base_url)

\* C13: the returned list has at most 3 elements, no URL twice, and each
\* element is the resolution against base_url of a link whose lower-cased href
\* or text contains a keyword.
C13_AtMostThreeDistinctKeywordLinks ==
    LinksReturned =>
        /\ Len(pages) <= 3
        /\ \A i, j \in 1..Len(pages) : pages[i] = pages[j] => i = j
        /\ \A i \in 1..Len(pages) :
              \E k \in Matching : pages[i] = urljoin(arg.base_url, arg.soup[k].href)

\* more than 3 URLs were kept and 3 of them were returned
C13_Witness ==
    /\ LinksReturned
    /\ Cardinality(found_urls) > 3
    /\ Len(pages) = 3

(***************************************************************************)
(* Properties of generate_common_patterns and find_email_enhanced          *)
(***************************************************************************)
\* the domain as generate_common_patterns writes it into the addresses
LoweredDomain == StripStr(LowerStr(arg.domain))

\* prefix@domain for one of the generic prefixes
GenericPattern(address, domain) ==
    \E prefixes \in {standard_prefixes, french_prefixes, german_prefixes,
                     spanish_prefixes, turkish_prefixes} :
        \E i \in 1..Len(prefixes) : address = prefixes[i] \o "@" \o domain

\* the list from position n on is generic and starts with info@domain
GenericFrom(n, domain) ==
    /\ Len(patterns) >= n
    /\ patterns[n] = "info@" \o domain
    /\ \A i \in n..Len(patterns) : GenericPattern(patterns[i], domain)

\* the dot-joined and the space-removed form of the cleaned company name lead
NameDerivedLead(domain) ==
    /\ Len(patterns) >= 2
    /\ patterns[1] = ReplaceAll(CleanName(arg.company_name), " ", ".") \o "@" \o domain
    /\ patterns[2] = ReplaceAll(CleanName(arg.company_name), " ", "") \o "@" \o domain

\* the fallback of find_email_enhanced returns the first generated address
\* and has consulted nothing
FallbackUnverified ==
    call = "find_email_enhanced" /\ method = "pattern" =>
        /\ guess = patterns[1]
        /\ patterns = generate_common_patterns(_clean_domain(arg.domain), arg.company_name)
        /\ lookups = <<>>

\* C14 as stated: with a company name the two name-derived addresses come
\* ahead of the generic ones, without one the list starts with info@domain,
\* and the fallback returns the first element unverified.
C14_NameDerivedWheneverNamed ==
    /\ call = "generate_common_patterns" =>
          IF arg.company_name # ""
          THEN NameDerivedLead(LoweredDomain) /\ GenericFrom(3, LoweredDomain)
          ELSE GenericFrom(1, LoweredDomain)
    /\ FallbackUnverified

\* C14: the two name-derived addresses lead when the company name, in lower
\* case and with the legal forms removed, is not empty; otherwise the list
\* starts with info@domain; the fallback returns the first element unverified.
C14_NameDerivedWhenNameRemains ==
    /\ call = "generate_common_patterns" =>
          IF CleanName(arg.company_name) # ""
          THEN NameDerivedLead(LoweredDomain) /\ GenericFrom(3, LoweredDomain)
          ELSE GenericFrom(1, LoweredDomain)
    /\ FallbackUnverified

\* the fallback returned a name-derived address of a two-word company name
C14_Witness ==
    /\ call = "find_email_enhanced" /\ method = "pattern"
    /\ Contains(CleanName(arg.company_name), " ")
    /\ Contains(_clean_domain(arg.domain), ".")
    /\ guess = patterns[1]
    /\ patterns[1] # patterns[2]
    /\ ~GenericPattern(guess, _clean_domain(arg.domain))

\* C15: find_email_enhanced never consults WHOIS: the method it returns is
\* "scraped" or "pattern", whatever the domain, the company name and the
\* scraped set.
C15_WhoisNeverConsulted ==
    call = "find_email_enhanced" =>
        /\ method \in {"scraped", "pattern"}
        /\ lookups = <<>>
        /\ guess # ""

\* the scraped set held only unusable elements and the pattern layer answered
C15_Witness ==
    /\ call = "find_email_enhanced"
    /\ arg.scraped_emails # {}
    /\ method = "pattern"
    /\ arg.domain = ""

(***************************************************************************)
(* Properties of successive crawls with one WebScraper                     *)
(***************************************************************************)
\* scrape_website has been called and has not yet made a request
AtCrawlStart ==
    /\ pc = "fetching" /\ stage = "home_scan"
    /\ Len(visits) = 1 /\ visits[1].got = "pending"
    /\ attempt = 0 /\ verify /\ reqs = <<>>

\* C16 as stated: no state is shared between crawls, so a crawl starts with
\* nothing left of the crawls before it.
C16_NothingShared ==
    AtCrawlStart => all_emails = {} /\ seen = {} /\ session = {}

\* C16: the Email Set of a crawl holds only candidates of the documents that
\* crawl was answered with, and what scrape_website returns is a best email of
\* those candidates, whatever was crawled before; of the WebScraper only its
\* HTTP session outlives a crawl.
C16_ResultFromOwnResponses ==
    /\ AtCrawlStart => all_emails = {} /\ page = NoPage /\ soup = NoPage
                       /\ contact_pages = <<>> /\ about_pages = <<>> /\ idx = 0
                       /\ result = NoResult
    /\ all_emails \subseteq seen
    /\ pc = "returned" => all_emails = seen /\ result \in BestEmails(seen)

\* a crawl starts with a WebScraper that has crawled before
C16_Witness ==
    /\ AtCrawlStart
    /\ session # {}
    /\ all_emails = {} /\ seen = {}

(***************************************************************************)
(* Properties of a batch run                                               *)
(***************************************************************************)
\* the records taken so far that ended in the given way
Ended(outcome) == {k \in 1..Len(outcomes) : outcomes[k].outcome = outcome}

\* C17: an exception raised while one record is crawled is caught for that
\* record, the record is counted as not found, and the later records are
\* still taken in the order of the input: unless the user stops it, the run
\* ends only after the last record.
C17_ErrorsDoNotHaltBatch ==
    call \in {"batch_loop", "batch_done"} =>
        /\ Len(outcomes) = row
        /\ \A k \in 1..row : outcomes[k].website = arg.websites[k]
        /\ found_count = Cardinality(Ended("found"))
        /\ not_found_count = Cardinality(Ended("not_found")) + Cardinality(Ended("error"))
        /\ call = "batch_done" /\ is_running => row = Len(arg.websites)

\* a run ended whose first record raised and whose later records were crawled
C17_Witness ==
    /\ call = "batch_done"
    /\ Len(outcomes) = 3
    /\ outcomes[1].outcome = "error"
    /\ outcomes[2].outcome = "found"
    /\ outcomes[3].outcome = "not_found"
    /\ not_found_count = 2

(***************************************************************************)
(* Properties of _get_page_soup                                            *)
(***************************************************************************)
\* the requests of the running call that verified the certificate
VerifiedGets == {i \in 1..Len(reqs) : reqs[i] = "get"}

\* the requests of the running call that did not, each of which has failed
FailedBypasses == {i \in 1..Len(reqs) : reqs[i] = "get_noverify"}

\* C18: a page visit makes at most 3 fetch attempts; an attempt that ends in a
\* timeout or in a generic request error is followed by a 2-second sleep and
\* then by the next attempt, and after the third failed attempt the page is
\* reported as absent.
C18_ThreeAttemptsWithBackoff ==
    /\ [](pc = "fetching" =>
            /\ attempt < MAX_RETRIES
            /\ Cardinality(VerifiedGets) = attempt + (IF verify THEN 0 ELSE 1))
    /\ [][GetTimeout \/ GetRequestError =>
            IF attempt + 1 < MAX_RETRIES
            THEN /\ pc' = "fetching" /\ verify'
                 /\ attempt' = attempt + 1
                 /\ reqs' = reqs \o <<"get", "sleep2">>
                 /\ page' = page
            ELSE /\ pc' = "fetched"
                 /\ page' = NoPage
                 /\ visits'[Len(visits')].got = "none"]_vars

\* two attempts timed out or failed, each was followed by the sleep, and the
\* third attempt is under way
C18_Witness ==
    /\ pc = "fetching" /\ verify
    /\ attempt = 2
    /\ reqs = <<"get", "sleep2", "get", "sleep2">>

\* C19 as stated: after a TLS error the page is requested once more without
\* verification, and when that request fails too no further request is made
\* for the page.
C19_GivesUpAfterFailedBypass ==
    pc = "fetching" => FailedBypasses = {}

\* C20 as stated: _get_page_soup returns a document only for a response
\* without an HTTP error status.
C20_NoDocumentFromErrorStatus ==
    page.ok => ~error_status

\* C21: an attempt that raises an exception which is neither a Timeout, nor a
\* RequestException, nor an SSLError ends the loop of _get_page_soup at once:
\* the call returns None in that step, without sleep and without another
\* attempt, whatever the number of attempts still left.
C21_OtherErrorAbortsRetries ==
    [][GetOtherError =>
          /\ pc' = "fetched"
          /\ page' = NoPage
          /\ attempt' = attempt
          /\ reqs' = <<>>
          /\ visits' = [visits EXCEPT ![Len(visits)].got = "none"]]_vars

\* the call returned None with the loop at its second iteration: one attempt
\* timed out or failed, the next raised an unexpected exception, and the third
\* was not made
C21_Witness ==
    /\ pc = "fetched"
    /\ page = NoPage
    /\ attempt = 1
    /\ visits[Len(visits)].got = "none"

(***************************************************************************)
(* Properties of the order of a crawl                                      *)
(***************************************************************************)
\* HOMEPAGE, CONTACT_SCAN, ABOUT_SCAN
StageRank(st) ==
    CASE st \in {"home_scan", "home_links"} -> 1
      [] st = "contact" -> 2
      [] st = "about" -> 3

\* the visits before the last have ended and what they were answered with has
\* been added to all_emails, which holds no valid email
ScannedWithoutValid ==
    /\ \A i \in 1..(Len(visits) - 1) : visits[i].got # "pending"
    /\ seen \subseteq all_emails
    /\ ~HasValid(all_emails)

\* contact_pages[:2]
SelectedContactPages == Take(contact_pages, MAX_CONTACT_VISITS)

\* C22: within one crawl the page visits come in the order homepage, contact
\* pages, about page, and no visit of an earlier stage follows one of a later
\* stage.  While a contact page is fetched the homepage has been scanned and
\* has left no valid email; while the about page is fetched every selected
\* contact page has been visited, in order, and scanned, and none has left a
\* valid email.
C22_StagesInOrder ==
    /\ \A i, j \in 1..Len(visits) :
          i < j => StageRank(visits[i].stage) <= StageRank(visits[j].stage)
    /\ \A i \in 1..Len(visits) : visits[i].stage = "home_scan" <=> i = 1
    /\ (pc = "fetching" /\ stage \in {"contact", "about"}) =>
          /\ visits[Len(visits)].stage = stage
          /\ visits[2].stage = "home_links" /\ visits[2].got = "soup"
          /\ ScannedWithoutValid
    /\ (pc = "fetching" /\ stage = "about") =>
          /\ Cardinality(VisitsOf("contact")) = Len(SelectedContactPages)
          /\ \A k \in 1..Len(SelectedContactPages) :
                /\ visits[2 + k].stage = "contact"
                /\ visits[2 + k].target = contact_pages[k]

\* the about page is being fetched after the homepage and two contact pages
\* were scanned, one of which held candidates that are no business emails
C22_Witness ==
    /\ pc = "fetching" /\ stage = "about"
    /\ Len(visits) = 5
    /\ Len(SelectedContactPages) = 2
    /\ all_emails # {}

\* C23: the visit of a contact page or of an about page starts right after a
\* sleep(1) of the same crawl, and neither fetch of the homepage does.
C23_PauseBeforeSecondaryPages ==
    /\ \A i \in 1..Len(visits) :
          visits[i].paused <=> visits[i].stage \in {"contact", "about"}
    /\ [][Len(visits') > Len(visits) =>
            /\ visits' = Append(visits, visits'[Len(visits')])
            /\ visits'[Len(visits')].got = "pending"
            /\ visits'[Len(visits')].paused = (pc \in {"contact_loop", "about_loop"})]_vars

\* a crawl that fetched the homepage twice without a pause and then a contact
\* page and an about page, each after a pause
C23_Witness ==
    /\ Len(visits) = 4
    /\ ~visits[1].paused /\ ~visits[2].paused
    /\ visits[3].stage = "contact" /\ visits[3].paused
    /\ visits[4].stage = "about" /\ visits[4].paused

(***************************************************************************)
(* Properties of the Cloudflare decoder                                    *)
(***************************************************************************)
\* the string consists of an even number of hex digits, two at least
WellFormedHex(s) ==
    /\ Len(s) >= 2 /\ Len(s) % 2 = 0
    /\ \A i \in 1..Len(s) : Ch(s, i) \in HexDigits

\* byte k of a well-formed hex string, k = 0 for the key
ByteAt(s, k) == 16 * HexVal(Ch(s, 2 * k + 1)) + HexVal(Ch(s, 2 * k + 2))

\* the bytes after the key, each XORed with the key
XoredBytes(s) == [k \in 1..((Len(s) \div 2) - 1) |-> XorNat(ByteAt(s, k), ByteAt(s, 0))]

IsContinuation(b) == b >= 128 /\ b <= 191

\* the number of bytes of the UTF-8 sequence that starts at b[i], 0 if none does
Utf8Width(b, i) ==
    LET c == b[i]
        has(n) == i + n - 1 <= Len(b) /\ \A j \in (i + 1)..(i + n - 1) : IsContinuation(b[j])
    IN  IF c < 128 THEN 1
        ELSE IF c >= 194 /\ c <= 223 /\ has(2) THEN 2
        ELSE IF c >= 224 /\ c <= 239 /\ has(3)
                /\ (c = 224 => b[i + 1] >= 160) /\ (c = 237 => b[i + 1] <= 159) THEN 3
        ELSE IF c >= 240 /\ c <= 244 /\ has(4)
                /\ (c = 240 => b[i + 1] >= 144) /\ (c = 244 => b[i + 1] <= 143) THEN 4
        ELSE 0

\* the code point of the UTF-8 sequence of n bytes at b[i]
Utf8CodePoint(b, i, n) ==
    CASE n = 1 -> b[i]
      [] n = 2 -> (b[i] - 192) * 64 + (b[i + 1] - 128)
      [] n = 3 -> (b[i] - 224) * 4096 + (b[i + 1] - 128) * 64 + (b[i + 2] - 128)
      [] n = 4 -> (b[i] - 240) * 262144 + (b[i + 1] - 128) * 4096
                    + (b[i + 2] - 128) * 64 + (b[i + 3] - 128)

\* the bytes from b[i] on, read as UTF-8: the code points, or <<-1>> where the
\* bytes are no UTF-8
RECURSIVE Utf8From(_, _)
Utf8From(b, i) ==
    IF i > Len(b) THEN <<>>
    ELSE LET n == Utf8Width(b, i)
         IN  IF n = 0 THEN <<-1>>
             ELSE LET rest == Utf8From(b, i + n)
                  IN  IF rest = <<-1>> THEN rest
                      ELSE <<Utf8CodePoint(b, i, n)>> \o rest

\* C24 as stated: for a string of an even number of hex digits
\* decode_cloudflare_email returns the bytes after the first, each XORed with
\* the first, read as UTF-8 text.
C24_DecodesAsUtf8 ==
    (/\ call = "decode_cloudflare_email"
     /\ WellFormedHex(arg)
     /\ Utf8From(XoredBytes(arg), 1) # <<-1>>)
        => decoded = Utf8From(XoredBytes(arg), 1)

(***************************************************************************)
(* Properties of the name-derived patterns                                 *)
(***************************************************************************)
\* the lower-cased name without the legal form it ends with, if it ends with one
WithoutLegalSuffix(name) ==
    LET n == StripStr(LowerStr(name))
        ends == {i \in 1..Len(company_suffixes) :
                    n = company_suffixes[i] \/ EndsWith(n, " " \o company_suffixes[i])}
        longest == CHOOSE i \in ends :
                      \A j \in ends : Len(company_suffixes[j]) <= Len(company_suffixes[i])
    IN  IF ends = {} THEN n
        ELSE StripStr(SubSeq(n, 1, Len(n) - Len(company_suffixes[longest])))

\* C25 as stated: the two name-derived addresses are made of the lower-cased
\* company name with a legal form removed only where the name ends with it,
\* every other character of the name being kept.
C25_OnlySuffixRemoved ==
    (/\ call = "generate_common_patterns"
     /\ arg.company_name # ""
     /\ WithoutLegalSuffix(arg.company_name) # "")
        => /\ Len(patterns) >= 2
           /\ patterns[1] = ReplaceAll(WithoutLegalSuffix(arg.company_name), " ", ".")
                                \o "@" \o LoweredDomain
           /\ patterns[2] = ReplaceAll(WithoutLegalSuffix(arg.company_name), " ", "")
                                \o "@" \o LoweredDomain

(***************************************************************************)
(* Properties of what a crawl returns                                      *)
(***************************************************************************)
\* C26: what scrape_website returns is the empty string or an element of
\* all_emails, the candidates of the documents this crawl received, that passes
\* is_valid_business_email; a crawl that an exception leaves returns nothing.
C26_ReturnsValidMemberOrEmpty ==
    /\ pc = "returned" =>
          \/ result = ""
          \/ /\ result \in all_emails
             /\ all_emails \subseteq seen
             /\ ValidCrawlEmail[result]
    /\ pc = "raised" => result = NoResult

\* a crawl returned a business email from a contact page after the homepage
\* had left a candidate in all_emails that fails the validation
C26_Witness ==
    /\ pc = "returned"
    /\ result # ""
    /\ \E e \in all_emails : ~ValidCrawlEmail[e]
    /\ visits[Len(visits)].stage = "contact"

(***************************************************************************)
(* Termination of a crawl                                                  *)
(***************************************************************************)
\* a crawl is under way
Crawling == pc \notin {"ready", "returned", "raised"}

\* the requests of the running call of _get_page_soup
RequestsSent == {i \in 1..Len(reqs) : reqs[i] \in {"get", "get_noverify"}}

\* one crawl makes 5 page fetches at most, each of 2 * MAX_RETRIES requests at
\* most, and ends: scrape_website returns or an exception leaves it
CrawlEnds ==
    /\ [](Len(visits) <= 3 + MAX_CONTACT_VISITS /\ Cardinality(RequestsSent) < 2 * MAX_RETRIES)
    /\ (Crawling ~> ~Crawling)

\* C27 as stated: every call of scrape_website makes a bounded number of page
\* fetches, each of a bounded number of requests, and then returns an address
\* or the empty string.
C27_EveryCrawlReturns ==
    /\ [](Len(visits) <= 3 + MAX_CONTACT_VISITS /\ Cardinality(RequestsSent) < 2 * MAX_RETRIES)
    /\ [](pc # "raised")
    /\ (Crawling ~> (pc = "returned" /\ result # NoResult))

(***************************************************************************)
(* Properties of the window and its threads                                *)
(***************************************************************************)
ActiveThreads == {t \in 1..Len(threads) : Active(t)}

\* C28 as stated: at most one run_analysis thread is active at any time.
C28_OneWorkerAtATime == Cardinality(ActiveThreads) <= 1

\* C29 as stated: once Stop was clicked during the run of a thread, that thread
\* calls scrape_website no more and does not write the output file; the output
\* file is written only by a thread that was not stopped and whose loop over
\* the sheets ran to its end.
C29_StoppedRunCrawlsAndWritesNoMore ==
    [][\A t \in 1..Len(threads) :
          /\ threads[t].stopped =>
                /\ threads'[t].pc = "crawling" => threads[t].pc = "crawling"
                /\ t \in saved' => t \in saved
          /\ (t \in saved' /\ t \notin saved) =>
                /\ ~threads[t].stopped
                /\ ~threads[t].broke
                /\ threads[t].sheet = MaxSheets
      ]_vars

(***************************************************************************)
(* Properties of the email fields written by a batch run                   *)
(***************************************************************************)
\* C30: the email field of a record holds an address only when the crawl of
\* that record returned it, non-empty, and the record was counted as found;
\* the field of a record whose crawl returned nothing or whose try block was
\* left by an exception is as it was read, as is the field of a record not yet
\* taken; and found_count + not_found_count is the number of records taken.
C30_FieldWrittenOnlyWhenFound ==
    call \in {"batch_loop", "batch_done"} =>
        /\ Len(df) = Len(arg.websites)
        /\ \A k \in 1..Len(df) :
              IF k <= Len(outcomes) /\ outcomes[k].outcome = "found"
              THEN outcomes[k].email # "" /\ df[k] = outcomes[k].email
              ELSE df[k] = ""
        /\ found_count + not_found_count = row
        /\ row = Len(outcomes)

\* a run ended with one record found, one without a result and one whose
\* update raised after the crawl had returned an address
C30_Witness ==
    /\ call = "batch_done"
    /\ \E i, j, k \in 1..Len(outcomes) :
          /\ outcomes[i].outcome = "found" /\ df[i] = outcomes[i].email
          /\ outcomes[j].outcome = "not_found" /\ df[j] = ""
          /\ outcomes[k].outcome = "error" /\ outcomes[k].email # "" /\ df[k] = ""
    /\ found_count = 1 /\ not_found_count = 2

====
